---- MODULE Spec2Model ----
(***************************************************************************)
(* A model of the AI test generation service: the response reconciliation  *)
(* routine tryParseJSON and the retry loop callAIWithRetry of the two      *)
(* generation routes (src/app/api/ai-testgen-elements/route.ts holds both: *)
(* the element-level route in lines 1-248, the page-level route in lines   *)
(* 251-648), and the sliding-window RateLimiter the routes share           *)
(* (src/unnamed/part_002, lines 448-495).                                  *)
(*                                                                         *)
(* Texts are TLA+ strings, read one character at a time with SubSeq.  The  *)
(* backquote cannot be written in a TLA+ string: the character ~ stands    *)
(* for it, so a code fence is ~~~.                                         *)
(***************************************************************************)
EXTENDS Integers, Sequences, FiniteSets, TLC

VARIABLES
    \* one call of tryParseJSON: the route whose copy of it runs, the
    \* response it is given (a document, wrapped and cut short, and the
    \* finish reason), where the call is, what it returned and what each
    \* strategy did
    pPc, pRoute, pDoc, pWrap, pCut, pText, pFinish, pResult, pTrace

parseVars == <<pPc, pRoute, pDoc, pWrap, pCut, pText, pFinish, pResult, pTrace>>

VARIABLES
    \* globalRateLimiter: its requests map and the clock Date.now() reads;
    \* the number of requests in flight by route and stage; and of the
    \* isAllowed calls made so far, per identifier the times of those that
    \* returned true and the time of the last that returned false, their
    \* number, and the last one with the response it led to
    rlRequests, rlNow, rlInFlight, rlAdmitted, rlRejected, rlCalls, rlLast,
    \* the number of requests answered 400 after the rate limit check
    rlInvalid

rlVars == <<rlRequests, rlNow, rlInFlight, rlAdmitted, rlRejected, rlCalls, rlLast,
            rlInvalid>>

VARIABLES
    \* a generation request: where POST is, the route and the body posted;
    \* of callAIWithRetry the attempt and useStrictPrompt of the call under
    \* way, the calls issued and the delays waited; lastResponseText; the
    \* response sent; and the number of requests so far
    gPc, gRoute, gBody, gAttempt, gStrict, gCalls, gDelays, gLastResponseText,
    gResponse, gRequests

genVars == <<gPc, gRoute, gBody, gAttempt, gStrict, gCalls, gDelays,
             gLastResponseText, gResponse, gRequests>>

VARIABLES
    \* the snapshot requests, by handler: where POST is, the body posted,
    \* the variable browser, the await that rejected and the response; the
    \* browser sessions open in the process; and the number of requests
    sPc, sBody, sBrowser, sThrew, sResponse, sSessions, sRequests

snapVars == <<sPc, sBody, sBrowser, sThrew, sResponse, sSessions, sRequests>>

VARIABLES
    \* a URL posted to a route: the scheme, host and rest it is written
    \* with, the text, whether NODE_ENV is production, where the request
    \* is, what validateUrl returned and the URL the route went on with
    vPc, vScheme, vHost, vTail, vUrl, vProduction, vResult, vUsed

validateVars == <<vPc, vScheme, vHost, vTail, vUrl, vProduction, vResult, vUsed>>

VARIABLES
    \* the storage of the page: isDatabaseAvailable and the sessions of the
    \* database, the items of localStorage; the call of saveStoredTests or
    \* loadStoredTests under way, where it is and its arguments; how the
    \* last call ended; per URL the last save; and the number of calls
    dbAvailable, dbSessions, lsItems, stPc, stArgs, stResult, stLastSave, stCalls

storageVars == <<dbAvailable, dbSessions, lsItems, stPc, stArgs, stResult,
                 stLastSave, stCalls>>

VARIABLES
    \* scanPage of the AiTestGen page: where it is and the scans started;
    \* the two generation requests of Promise.allSettled, as settled;
    \* aiData, previousData and what saveStoredTests was called with; the
    \* the state shown (aiTests, aiSummary, hasError, loading) and the URL
    \* whose data it was last written with; the URL in the input field, the
    \* URLs whose load by the effect is under way, and the edits so far
    \* (pageUrl is the state url of the page)
    scPc, scScans, scGeneral, scElement, scAiData, scPrevious, scSaved,
    aiTests, aiSummary, hasError, loading, shownFor, pageUrl, ldPending, edits

\* the input field and the loads of the effect
fieldVars == <<pageUrl, ldPending, edits>>

scanVars == <<scPc, scScans, scGeneral, scElement, scAiData, scPrevious, scSaved,
              aiTests, aiSummary, hasError, loading, shownFor, fieldVars>>

\* the variables of the parts that came after the generation routes
restVars == <<snapVars, validateVars, storageVars, scanVars>>

vars == <<parseVars, rlVars, genVars, restVars>>

-----------------------------------------------------------------------------
(* Strings, as JavaScript's String methods and regular expressions see them *)

Ch(s, i) == SubSeq(s, i, i)

\* the characters \s matches, among those the texts are written in
WhiteSpace == {" ", "\n", "\t"}

Fence == "~~~"

Min(S) == CHOOSE x \in S : \A y \in S : x <= y
Max(S) == CHOOSE x \in S : \A y \in S : x >= y

Positions(s, c) == {i \in 1..Len(s) : Ch(s, i) = c}

\* String.prototype.indexOf / lastIndexOf for one character, 1-based, 0 for -1
IndexOf(s, c) == IF Positions(s, c) = {} THEN 0 ELSE Min(Positions(s, c))
LastIndexOf(s, c) == IF Positions(s, c) = {} THEN 0 ELSE Max(Positions(s, c))

\* (s.match(/c/g) || []).length
CountChar(s, c) == Cardinality(Positions(s, c))

StartsWithAt(s, i, lit) ==
    /\ i >= 1
    /\ i + Len(lit) - 1 <= Len(s)
    /\ SubSeq(s, i, i + Len(lit) - 1) = lit

\* the position after the greedy \s* that starts at i
RECURSIVE SkipWs(_, _)
SkipWs(s, i) ==
    IF i <= Len(s) /\ Ch(s, i) \in WhiteSpace THEN SkipWs(s, i + 1) ELSE i

\* the last position of the text before the trailing white space
RECURSIVE SkipWsBack(_, _)
SkipWsBack(s, i) ==
    IF i >= 1 /\ Ch(s, i) \in WhiteSpace THEN SkipWsBack(s, i - 1) ELSE i

\* String.prototype.trim
Trim(s) == SubSeq(s, SkipWs(s, 1), SkipWsBack(s, Len(s)))

RECURSIVE Repeat(_, _)
Repeat(c, n) == IF n <= 0 THEN "" ELSE c \o Repeat(c, n - 1)

-----------------------------------------------------------------------------
(* JavaScript values, as JSON.parse builds them.  An object keeps its      *)
(* properties as two sequences, names and values, in insertion order; an   *)
(* array keeps its elements in items and, being an object too, may carry   *)
(* named properties.                                                       *)

JsValue(t, s, keys, vals, items) ==
    [t |-> t, s |-> s, keys |-> keys, vals |-> vals, items |-> items]

JsUndefined == JsValue("undefined", "", <<>>, <<>>, <<>>)
JsNull == JsValue("null", "", <<>>, <<>>, <<>>)
JsBool(b) == JsValue("boolean", b, <<>>, <<>>, <<>>)
JsNumber(lexeme) == JsValue("number", lexeme, <<>>, <<>>, <<>>)
JsString(s) == JsValue("string", s, <<>>, <<>>, <<>>)
JsArray(items) == JsValue("array", "", <<>>, <<>>, items)
JsObject(keys, vals) == JsValue("object", "", keys, vals, <<>>)

HasProp(v, k) == \E i \in 1..Len(v.keys) : v.keys[i] = k

\* v[k]: the property's value, undefined when v has no such property
GetProp(v, k) ==
    IF HasProp(v, k)
    THEN v.vals[CHOOSE i \in 1..Len(v.keys) : v.keys[i] = k]
    ELSE JsUndefined

\* v[k] = x: an existing property keeps its place, a new one goes last
SetProp(v, k, x) ==
    IF HasProp(v, k)
    THEN [v EXCEPT !.vals = [i \in 1..Len(v.vals) |->
                                IF v.keys[i] = k THEN x ELSE v.vals[i]]]
    ELSE [v EXCEPT !.keys = Append(v.keys, k), !.vals = Append(v.vals, x)]

\* typeof v === 'object' && v !== null
IsNonNullObject(v) == v.t \in {"object", "array"}

\* Array.isArray(v)
IsArray(v) == v.t = "array"

\* !v: undefined, null, false, 0 and "" are falsy
IsFalsy(v) ==
    \/ v.t \in {"undefined", "null"}
    \/ v.t = "boolean" /\ v.s = "false"
    \/ v.t = "number" /\ v.s = "0"
    \/ v.t = "string" /\ v.s = ""

-----------------------------------------------------------------------------
(* JSON.parse, for the JSON grammar over the characters of the texts:      *)
(* objects, arrays, strings with the escapes \" \\ \/ \n \t, unsigned      *)
(* integers, true, false and null, and white space between tokens.  A      *)
(* parse step yields [ok, v, i]: the value and the position after it.      *)

Digits == {"0", "1", "2", "3", "4", "5", "6", "7", "8", "9"}

ParseFail == [ok |-> FALSE, v |-> JsUndefined, i |-> 0]
ParseOk(v, i) == [ok |-> TRUE, v |-> v, i |-> i]

Unescape(c) ==
    CASE c = "n" -> "\n"
      [] c = "t" -> "\t"
      [] OTHER -> c

\* in a string literal that starts at position i, the backslashes that
\* stand in a row before position j
RECURSIVE BackslashesBefore(_, _, _)
BackslashesBefore(s, i, j) ==
    IF j - 1 >= i /\ Ch(s, j - 1) = "\\" THEN 1 + BackslashesBefore(s, i, j - 1) ELSE 0

\* whether position j starts a character or an escape: an even number of
\* backslashes stands before it
StartsUnit(s, i, j) == BackslashesBefore(s, i, j) % 2 = 0

\* the closing quotes of the literal among the ScanWidth positions from
\* position from on, and if there is none, among the next ones
ScanWidth == 16

RECURSIVE ClosingQuotesFrom(_, _, _)
ClosingQuotesFrom(s, i, from) ==
    IF from > Len(s) THEN {}
    ELSE IF \E j \in from..Min({from + ScanWidth - 1, Len(s)}) :
                Ch(s, j) = "\"" /\ StartsUnit(s, i, j)
         THEN {j \in from..Min({from + ScanWidth - 1, Len(s)}) :
                Ch(s, j) = "\"" /\ StartsUnit(s, i, j)}
         ELSE ClosingQuotesFrom(s, i, from + ScanWidth)

\* the closing quotes the literal can end at, the first of them among them
ClosingQuotes(s, i) == ClosingQuotesFrom(s, i, i)

\* what position j of the literal stands for
UnitAt(s, i, j) ==
    IF ~StartsUnit(s, i, j) THEN ""
    ELSE IF Ch(s, j) = "\\" THEN Unescape(Ch(s, j + 1))
    ELSE Ch(s, j)

RECURSIVE UnitsBetween(_, _, _, _)
UnitsBetween(s, i, lo, hi) ==
    IF lo > hi THEN ""
    ELSE IF lo = hi THEN UnitAt(s, i, lo)
    ELSE UnitsBetween(s, i, lo, (lo + hi) \div 2)
            \o UnitsBetween(s, i, ((lo + hi) \div 2) + 1, hi)

\* the characters before the closing quote at e are ones a literal may hold
LiteralOk(s, i, e) ==
    \A j \in i..(e - 1) :
        StartsUnit(s, i, j) =>
            /\ Ch(s, j) \notin {"\n", "\t"}
            /\ Ch(s, j) = "\\" => Ch(s, j + 1) \in {"\"", "\\", "/", "n", "t"}

\* the rest of a string literal whose opening quote is before position i
ParseStringEnding(s, i, acc, closing) ==
    IF closing = {} THEN ParseFail
    ELSE IF ~LiteralOk(s, i, Min(closing)) THEN ParseFail
    ELSE ParseOk(JsString(acc \o UnitsBetween(s, i, i, Min(closing) - 1)), Min(closing) + 1)

ParseStringFrom(s, i, acc) == ParseStringEnding(s, i, acc, ClosingQuotes(s, i))

RECURSIVE DigitsEnd(_, _)
DigitsEnd(s, i) ==
    IF i <= Len(s) /\ Ch(s, i) \in Digits THEN DigitsEnd(s, i + 1) ELSE i

ParseNumber(s, i) ==
    LET e == DigitsEnd(s, i)
    IN  IF Ch(s, i) = "0" /\ e > i + 1
        THEN ParseFail
        ELSE ParseOk(JsNumber(SubSeq(s, i, e - 1)), e)

RECURSIVE ParseValue(_, _), ParseMembers(_, _, _), ParseElements(_, _, _)

\* the value that starts at position i
ParseValue(s, i) ==
    IF i > Len(s) THEN ParseFail
    ELSE IF Ch(s, i) = "{"
         THEN IF SkipWs(s, i + 1) <= Len(s) /\ Ch(s, SkipWs(s, i + 1)) = "}"
              THEN ParseOk(JsObject(<<>>, <<>>), SkipWs(s, i + 1) + 1)
              ELSE ParseMembers(s, SkipWs(s, i + 1), JsObject(<<>>, <<>>))
    ELSE IF Ch(s, i) = "["
         THEN IF SkipWs(s, i + 1) <= Len(s) /\ Ch(s, SkipWs(s, i + 1)) = "]"
              THEN ParseOk(JsArray(<<>>), SkipWs(s, i + 1) + 1)
              ELSE ParseElements(s, SkipWs(s, i + 1), <<>>)
    ELSE IF Ch(s, i) = "\"" THEN ParseStringFrom(s, i + 1, "")
    ELSE IF Ch(s, i) \in Digits THEN ParseNumber(s, i)
    ELSE IF StartsWithAt(s, i, "true") THEN ParseOk(JsBool("true"), i + 4)
    ELSE IF StartsWithAt(s, i, "false") THEN ParseOk(JsBool("false"), i + 5)
    ELSE IF StartsWithAt(s, i, "null") THEN ParseOk(JsNull, i + 4)
    ELSE ParseFail

\* the members of an object from position i on, obj holding those before
ParseMembers(s, i, obj) ==
    IF i > Len(s) \/ Ch(s, i) # "\"" THEN ParseFail
    ELSE LET k == ParseStringFrom(s, i + 1, "")
         IN  IF ~k.ok THEN ParseFail
             ELSE LET c == SkipWs(s, k.i)
                  IN  IF c > Len(s) \/ Ch(s, c) # ":" THEN ParseFail
                      ELSE LET x == ParseValue(s, SkipWs(s, c + 1))
                           IN  IF ~x.ok THEN ParseFail
                               ELSE LET e == SkipWs(s, x.i)
                                        o == SetProp(obj, k.v.s, x.v)
                                    IN  IF e > Len(s) THEN ParseFail
                                        ELSE IF Ch(s, e) = ","
                                             THEN ParseMembers(s, SkipWs(s, e + 1), o)
                                        ELSE IF Ch(s, e) = "}"
                                             THEN ParseOk(o, e + 1)
                                        ELSE ParseFail

\* the elements of an array from position i on, items holding those before
ParseElements(s, i, items) ==
    LET x == ParseValue(s, i)
    IN  IF ~x.ok THEN ParseFail
        ELSE LET e == SkipWs(s, x.i)
             IN  IF e > Len(s) THEN ParseFail
                 ELSE IF Ch(s, e) = ","
                      THEN ParseElements(s, SkipWs(s, e + 1), Append(items, x.v))
                 ELSE IF Ch(s, e) = "]"
                      THEN ParseOk(JsArray(Append(items, x.v)), e + 1)
                 ELSE ParseFail

\* JSON.parse(s): ok is FALSE where JSON.parse throws a SyntaxError
JSONParse(s) ==
    LET x == ParseValue(s, SkipWs(s, 1))
    IN  IF x.ok /\ SkipWs(s, x.i) = Len(s) + 1 THEN x ELSE ParseFail

-----------------------------------------------------------------------------
(* tryParseJSON: the four extraction strategies.  A strategy yields        *)
(* [found, s]: found is FALSE where the code's strategy returns null.      *)

NoCandidate == [found |-> FALSE, s |-> ""]
Found(s) == [found |-> TRUE, s |-> s]

\* where the capture of /```(?:json)?\s*(\{[\s\S]*\})\s*```/ starts when the
\* match starts at p: after the fence, an optional json and white space, at {
FenceOpenAt(s, p) ==
    LET q == IF StartsWithAt(s, p + 3, "json") THEN p + 7 ELSE p + 3
        r == SkipWs(s, q)
    IN  IF StartsWithAt(s, p, Fence) /\ r <= Len(s) /\ Ch(s, r) = "{" THEN r ELSE 0

\* the closing braces after r that white space and a fence follow
FenceCloses(s, r) ==
    {e \in (r + 1)..Len(s) :
        Ch(s, e) = "}" /\ StartsWithAt(s, SkipWs(s, e + 1), Fence)}

\* the capture whose opening brace is at r
FencedCapture(text, r) == Found(SubSeq(text, r, Max(FenceCloses(text, r))))

FirstFenced(text, P) ==
    IF P = {} THEN NoCandidate ELSE FencedCapture(text, FenceOpenAt(text, Min(P)))

\* where the capture of a match that starts at p starts, 0 where none does
FenceMatchAt(text, r) == IF r # 0 /\ FenceCloses(text, r) # {} THEN r ELSE 0

\* strategy 1: the leftmost match, its [\s\S]* taking as much as it can
FencedBlock(text) ==
    FirstFenced(text, {p \in 1..Len(text) : FenceMatchAt(text, FenceOpenAt(text, p)) # 0})

\* strategy 2: text.indexOf('{') to text.lastIndexOf('}')
OuterBraceSlice(text) ==
    LET firstBrace == IndexOf(text, "{")
        lastBrace == LastIndexOf(text, "}")
    IN  IF firstBrace # 0 /\ lastBrace > firstBrace
        THEN Found(SubSeq(text, firstBrace, lastBrace))
        ELSE NoCandidate

\* strategy 3: /(\{[\s\S]*\})/, the leftmost { that a } follows, to the last }
LooseBraceMatch(text) ==
    LET P == {p \in Positions(text, "{") : \E e \in Positions(text, "}") : e > p}
    IN  IF P = {} THEN NoCandidate
        ELSE Found(SubSeq(text, Min(P), Max(Positions(text, "}"))))

\* strategy 4: text.trim()
Verbatim(text) == Found(Trim(text))

Strategy(text, k) ==
    CASE k = 1 -> FencedBlock(text)
      [] k = 2 -> OuterBraceSlice(text)
      [] k = 3 -> LooseBraceMatch(text)
      [] k = 4 -> Verbatim(text)

NumStrategies == 4

-----------------------------------------------------------------------------
(* tryParseJSON: repair of a truncated candidate, trailing commas *)

\* the first repair of the page-level route: a quote is appended whenever the
\* last quote is after the last comma
QuoteAfterComma(js) == LastIndexOf(js, "\"") > LastIndexOf(js, ",")

\* the element-level repair and the second page-level one: ... and the quotes
\* are odd in number
InOpenString(js) ==
    LastIndexOf(js, "\"") > LastIndexOf(js, ",") /\ CountChar(js, "\"") % 2 # 0

\* the loop that appends n closing braces, each after a closing quote where
\* the check (checked: with the parity of the quotes) finds a string open
RECURSIVE AppendBraces(_, _, _)
AppendBraces(js, n, checked) ==
    IF n <= 0 THEN js
    ELSE LET open == IF checked THEN InOpenString(js) ELSE QuoteAfterComma(js)
         IN  AppendBraces((IF open THEN js \o "\"" ELSE js) \o "}", n - 1, checked)

\* braces first, then brackets, both counted before anything is appended
CloseStructures(js, checked) ==
    LET openBraces == CountChar(js, "{")
        closeBraces == CountChar(js, "}")
        openBrackets == CountChar(js, "[")
        closeBrackets == CountChar(js, "]")
    IN  AppendBraces(js, openBraces - closeBraces, checked)
            \o Repeat("]", openBrackets - closeBrackets)

RepairElement(js) == CloseStructures(js, TRUE)
RepairPageFirst(js) == CloseStructures(js, FALSE)
RepairPageSecond(js) == CloseStructures(js, TRUE)

\* js.replace(/,(\s*[}\]])/g, '$1'): every comma that white space and a
\* closing brace or bracket follow is dropped; the comma at position i is
\* one the pattern matches
TrailingComma(js, i) ==
    /\ Ch(js, i) = ","
    /\ SkipWs(js, i + 1) <= Len(js)
    /\ Ch(js, SkipWs(js, i + 1)) \in {"}", "]"}

\* the characters from..to of js without the commas the pattern matches
RECURSIVE StripFrom(_, _, _)
StripFrom(js, from, to) ==
    IF from > to THEN ""
    ELSE IF from = to THEN (IF TrailingComma(js, from) THEN "" ELSE Ch(js, from))
    ELSE StripFrom(js, from, (from + to) \div 2)
            \o StripFrom(js, ((from + to) \div 2) + 1, to)

StripTrailingCommas(js) == StripFrom(js, 1, Len(js))

\* the string the element-level route hands to JSON.parse
PrepareElement(js, finishReason) ==
    StripTrailingCommas(IF finishReason = "length" THEN RepairElement(js) ELSE js)

\* the second repair of the page-level route, after the commas are stripped
PageSecond(stripped, finishReason) ==
    IF finishReason = "length" THEN RepairPageSecond(stripped) ELSE stripped

\* the string the page-level route hands to JSON.parse
PreparePage(js, finishReason) ==
    PageSecond(StripTrailingCommas(IF finishReason = "length" THEN RepairPageFirst(js) ELSE js),
               finishReason)

Prepare(route, js, finishReason) ==
    IF route = "element" THEN PrepareElement(js, finishReason)
    ELSE PreparePage(js, finishReason)

-----------------------------------------------------------------------------
(* tryParseJSON: the loop over the strategies *)

EmptyArray == JsArray(<<>>)

\* a mutant: only a missing tests field is replaced
CoerceTestsIfAbsent(parsed) ==
    IF HasProp(parsed, "tests") THEN parsed ELSE SetProp(parsed, "tests", EmptyArray)

\* if (!parsed.tests || !Array.isArray(parsed.tests)) parsed.tests = []
CoerceTests(parsed) ==
    IF IsFalsy(GetProp(parsed, "tests")) \/ ~IsArray(GetProp(parsed, "tests"))
    THEN SetProp(parsed, "tests", EmptyArray)
    ELSE parsed

NoData == [kind |-> "continue", data |-> JsUndefined, candidate |-> "",
           prepared |-> "", parsed |-> JsUndefined, why |-> "null"]

\* after JSON.parse: a SyntaxError is thrown, an object (or array) is
\* returned with its tests coerced, any other value makes the loop go on
AfterParse(candidate, js, p) ==
    IF ~p.ok
    THEN [NoData EXCEPT !.kind = "throw", !.candidate = candidate,
                        !.prepared = js, !.why = "syntax"]
    ELSE IF IsNonNullObject(p.v)
         THEN [kind |-> "return", data |-> CoerceTests(p.v), candidate |-> candidate,
               prepared |-> js, parsed |-> p.v, why |-> "object"]
         ELSE [NoData EXCEPT !.candidate = candidate, !.prepared = js,
                             !.parsed = p.v, !.why = "nonobject"]

ParsePrepared(candidate, js) == AfterParse(candidate, js, JSONParse(js))

\* if (!jsonString) continue; then repair, strip and parse
WithCandidate(route, c, finishReason) ==
    IF ~c.found \/ c.s = "" THEN NoData
    ELSE ParsePrepared(c.s, Prepare(route, c.s, finishReason))

\* the body of the try block for strategy k: "continue" (no candidate, or a
\* parsed value that is no object), "return" with the data, or "throw" (the
\* SyntaxError of JSON.parse); candidate, prepared, parsed and why record
\* what the body computed on the way
StrategyBody(route, text, finishReason, k) ==
    WithCandidate(route, Strategy(text, k), finishReason)

\* a mutant: the body outside the try, so that the SyntaxError escapes
TryStrategyNoCatch(route, text, finishReason, k) ==
    StrategyBody(route, text, finishReason, k)

\* catch (parseErr) { continue; }
Catch(b) == IF b.kind = "throw" THEN [b EXCEPT !.kind = "continue"] ELSE b

\* try { ... } catch (parseErr) { continue; }
TryStrategy(route, text, finishReason, k) ==
    Catch(StrategyBody(route, text, finishReason, k))

ParseSuccess(data) ==
    [outcome |-> "returned", success |-> TRUE, data |-> data, error |-> ""]
ParseFailure ==
    [outcome |-> "returned", success |-> FALSE, data |-> JsUndefined,
     error |-> "All parsing strategies failed"]
ParseThrew ==
    [outcome |-> "threw", success |-> FALSE, data |-> JsUndefined, error |-> ""]

RECURSIVE TryFrom(_, _, _, _)

\* a mutant: a later candidate that parses replaces the one found
LoopStepLastWins(r, route, text, finishReason, k) ==
    CASE r.kind = "return" /\ ~TryFrom(route, text, finishReason, k + 1).success
            -> ParseSuccess(r.data)
      [] r.kind = "throw" -> ParseThrew
      [] OTHER -> TryFrom(route, text, finishReason, k + 1)

\* what the loop does with the outcome r of strategy k
LoopStep(r, route, text, finishReason, k) ==
    CASE r.kind = "return" -> ParseSuccess(r.data)
      [] r.kind = "throw" -> ParseThrew
      [] OTHER -> TryFrom(route, text, finishReason, k + 1)

\* for (const strategy of strategies), from strategy k on
TryFrom(route, text, finishReason, k) ==
    IF k > NumStrategies THEN ParseFailure
    ELSE LoopStep(TryStrategy(route, text, finishReason, k), route, text, finishReason, k)

tryParseJSON(route, text, finishReason) == TryFrom(route, text, finishReason, 1)

-----------------------------------------------------------------------------
(* JSON.stringify, which NextResponse.json applies to the body: an array   *)
(* is written as its elements alone, its named properties are dropped.     *)

EscapeChar(c) ==
    CASE c = "\"" -> "\\\""
      [] c = "\\" -> "\\\\"
      [] c = "\n" -> "\\n"
      [] c = "\t" -> "\\t"
      [] OTHER -> c

RECURSIVE EscapeBetween(_, _, _)
EscapeBetween(s, lo, hi) ==
    IF lo > hi THEN ""
    ELSE IF lo = hi THEN EscapeChar(Ch(s, lo))
    ELSE EscapeBetween(s, lo, (lo + hi) \div 2)
            \o EscapeBetween(s, ((lo + hi) \div 2) + 1, hi)

EscapeFrom(s, i) == EscapeBetween(s, i, Len(s))

Quote(s) == "\"" \o EscapeFrom(s, 1) \o "\""

\* the places of the properties JSON.stringify writes: those whose value
\* is not undefined
Written(v) ==
    SelectSeq([i \in 1..Len(v.keys) |-> i], LAMBDA i : v.vals[i].t # "undefined")

RECURSIVE Stringify(_), StringifyItems(_, _), StringifyProps(_, _, _)
Stringify(v) ==
    CASE v.t = "object" -> "{" \o StringifyProps(v, Written(v), 1) \o "}"
      [] v.t = "array" -> "[" \o StringifyItems(v.items, 1) \o "]"
      [] v.t = "string" -> Quote(v.s)
      [] v.t = "null" -> "null"
      [] OTHER -> v.s

StringifyItems(items, i) ==
    IF i > Len(items) THEN ""
    ELSE (IF i > 1 THEN "," ELSE "")
            \o (IF items[i].t = "undefined" THEN "null" ELSE Stringify(items[i]))
            \o StringifyItems(items, i + 1)

StringifyProps(v, written, j) ==
    IF j > Len(written) THEN ""
    ELSE (IF j > 1 THEN "," ELSE "")
            \o Quote(v.keys[written[j]]) \o ":" \o Stringify(v.vals[written[j]])
            \o StringifyProps(v, written, j + 1)

-----------------------------------------------------------------------------
(* The responses tryParseJSON is checked on: each document, bare or        *)
(* wrapped in prose and a code fence, with up to MaxCut characters cut     *)
(* from its end, as a model's output is cut at the token limit.            *)

MaxCut == 3

Docs == {
    "{\"summary\":\"partial\",\"tests\":[{\"title\":\"A\"}]}",
    "{\"summary\":\"ok\"}",
    "{\"tests\":\"none\"}",
    "{\"a\":{\"b\":1}}",
    "{\"summary\":\"a, }\",\"tests\":[]}",
    "{\"a\":\"x\\\"y\"}",
    "{\"a\":1,\"tests\":[1,2,],}",
    "{\"a\":}",
    "{\"a\":\"b\",\"c\":[1,2]}",
    "[1]",
    "[{\"a\":1}]",
    "null" }

Wrappers == {"bare", "fenced", "fencedProse", "prose"}

Wrap(w, d) ==
    CASE w = "bare" -> d
      [] w = "fenced" -> "~~~json\n" \o d \o "\n~~~"
      [] w = "fencedProse" -> "Here is {the} result:\n~~~json\n" \o d \o "\n~~~\nThanks"
      [] w = "prose" -> "Result: " \o d \o " \n"

CutEnd(s, k) == SubSeq(s, 1, IF Len(s) > k THEN Len(s) - k ELSE 0)

FinishReasons == {"stop", "length"}
Routes == {"element", "page"}

NotRun == [NoData EXCEPT !.why = "notrun"]

\* the strategy at which tryParseJSON stops: the first that does not continue
RECURSIVE StopsAt(_, _, _, _)
StopsAt(route, text, finishReason, k) ==
    IF k >= NumStrategies \/ TryStrategy(route, text, finishReason, k).kind # "continue"
    THEN k
    ELSE StopsAt(route, text, finishReason, k + 1)

ParseStart ==
    /\ pPc = "input"
    /\ pRoute \in Routes
    /\ pDoc \in Docs
    /\ pWrap \in Wrappers
    /\ pCut \in 0..MaxCut
    /\ pText = CutEnd(Wrap(pWrap, pDoc), pCut)
    /\ pFinish \in FinishReasons
    /\ pResult = ParseFailure
    /\ pTrace = [k \in 1..NumStrategies |-> NotRun]

\* const parseResult = tryParseJSON(text, finishReason)
CallTryParseJSON ==
    /\ pPc = "input"
    /\ pPc' = "parsed"
    /\ pResult' = tryParseJSON(pRoute, pText, pFinish)
    /\ pTrace' = [k \in 1..NumStrategies |->
                    IF k <= StopsAt(pRoute, pText, pFinish, 1)
                    THEN StrategyBody(pRoute, pText, pFinish, k)
                    ELSE NotRun]
    /\ UNCHANGED <<pRoute, pDoc, pWrap, pCut, pText, pFinish>>

\* no call of tryParseJSON is under way
ParseIdle ==
    /\ pPc = "off"
    /\ pRoute = "page"
    /\ pDoc = ""
    /\ pWrap = "bare"
    /\ pCut = 0
    /\ pText = ""
    /\ pFinish = "stop"
    /\ pResult = ParseFailure
    /\ pTrace = [k \in 1..NumStrategies |-> NotRun]

-----------------------------------------------------------------------------
(* RateLimiter (src/unnamed/part_002), and the requests of the three       *)
(* routes that call globalRateLimiter.isAllowed first thing.  JavaScript   *)
(* runs a handler without interruption up to its next await, so isAllowed, *)
(* which is synchronous, is one step; the requests interleave at their     *)
(* awaits.                                                                 *)

\* the window and the ceiling, scaled down from 60000 ms and 10 requests
WindowMs == 2
MaxRequests == 2

\* the clock stops at MaxTime; at most MaxCalls requests arrive; at most
\* MaxInFlight requests are in flight at once
MaxTime == 3
MaxCalls == 4
MaxInFlight == 2

Identifiers == {"10.0.0.1", "unknown"}
LimitedRoutes == {"page", "element", "snapshot"}

\* a mutant: a request made exactly windowMs ago still counts
InWindowInclusive(now, time) == now - time <= WindowMs

\* time => now - time < this.windowMs
InWindow(now, time) == now - time < WindowMs

RECURSIVE Filter(_, _)
\* requests.filter(time => now - time < this.windowMs)
Filter(requests, now) ==
    IF requests = <<>> THEN <<>>
    ELSE (IF InWindow(now, Head(requests)) THEN <<Head(requests)>> ELSE <<>>)
            \o Filter(Tail(requests), now)

\* a mutant: one request more than maxRequests is let through
AtLimitOffByOne(validRequests) == Len(validRequests) > MaxRequests

\* validRequests.length >= this.maxRequests
AtLimit(validRequests) == Len(validRequests) >= MaxRequests

\* a mutant: a refused request is recorded like an admitted one
IsAllowedOnRecordsRefused(validRequests, requests, identifier, now) ==
    [allowed |-> ~AtLimit(validRequests),
     requests |-> [requests EXCEPT ![identifier] = Append(validRequests, now)]]

\* isAllowed, once the old requests are filtered out: what it returns and
\* the map it leaves
IsAllowedOn(validRequests, requests, identifier, now) ==
    IF AtLimit(validRequests)
    THEN [allowed |-> FALSE, requests |-> requests]
    ELSE [allowed |-> TRUE,
          requests |-> [requests EXCEPT ![identifier] = Append(validRequests, now)]]

\* isAllowed(identifier) at time now
isAllowed(requests, identifier, now) ==
    IsAllowedOn(Filter(requests[identifier], now), requests, identifier, now)

\* getRemainingRequests(identifier) at time now
getRemainingRequests(requests, identifier, now) ==
    Max({0, MaxRequests - Len(Filter(requests[identifier], now))})

SeqMin(q) == Min({q[i] : i \in 1..Len(q)})

\* a mutant: the window is counted from the newest stored request
getResetTimeNewest(requests, identifier) ==
    IF requests[identifier] = <<>> THEN 0
    ELSE Max({requests[identifier][i] : i \in 1..Len(requests[identifier])}) + WindowMs

\* getResetTime(identifier): the oldest stored request plus the window, 0
\* where none is stored
getResetTime(requests, identifier) ==
    IF requests[identifier] = <<>> THEN 0
    ELSE SeqMin(requests[identifier]) + WindowMs

\* where a request in flight is: awaiting its body, or at its work
Stages == {"body", "work"}
InFlightKinds == LimitedRoutes \X Stages

RECURSIVE SumOver(_, _)
SumOver(f, S) ==
    IF S = {} THEN 0
    ELSE LET x == CHOOSE y \in S : TRUE IN f[x] + SumOver(f, S \ {x})

\* the number of requests in flight
InFlight == SumOver(rlInFlight, InFlightKinds)

NoCall == [id |-> "unknown", time |-> 0, allowed |-> FALSE, status |-> 0, resetTime |-> 0]

RateLimiterIdle ==
    /\ rlRequests = [i \in Identifiers |-> <<>>]
    /\ rlNow = 0
    /\ rlInFlight = [k \in InFlightKinds |-> 0]
    /\ rlAdmitted = [i \in Identifiers |-> <<>>]
    /\ rlRejected = [i \in Identifiers |-> <<>>]
    /\ rlCalls = 0
    /\ rlLast = NoCall
    /\ rlInvalid = 0

\* the variables of the other parts, which the steps of this part leave alone
notRateLimiter == <<parseVars, genVars, restVars>>

\* time passes
Tick ==
    /\ rlNow < MaxTime
    /\ rlNow' = rlNow + 1
    /\ UNCHANGED <<rlRequests, rlInFlight, rlAdmitted, rlRejected, rlCalls, rlLast, rlInvalid>>
    /\ UNCHANGED notRateLimiter

\* what the handler does with the answer of isAllowed: the 429 response
\* with resetTime, or on to await req.json()
AfterCheck(route, id, r) ==
    /\ rlRequests' = r.requests
    /\ rlCalls' = rlCalls + 1
    /\ rlAdmitted' = IF r.allowed
                     THEN [rlAdmitted EXCEPT ![id] = Append(@, rlNow)]
                     ELSE rlAdmitted
    /\ rlRejected' = IF r.allowed
                     THEN rlRejected
                     ELSE [rlRejected EXCEPT ![id] = <<rlNow>>]
    /\ rlLast' = [id |-> id, time |-> rlNow, allowed |-> r.allowed,
                  status |-> IF r.allowed THEN 0 ELSE 429,
                  resetTime |-> IF r.allowed THEN 0 ELSE getResetTime(r.requests, id)]
    /\ rlInFlight' = IF r.allowed
                     THEN [rlInFlight EXCEPT ![<<route, "body">>] = @ + 1]
                     ELSE rlInFlight
    /\ UNCHANGED rlInvalid

\* POST of a route starts: the rate limit check, up to the first await
Arrive(route, id) ==
    /\ InFlight < MaxInFlight
    /\ rlCalls < MaxCalls
    /\ AfterCheck(route, id, isAllowed(rlRequests, id, rlNow))
    /\ UNCHANGED rlNow
    /\ UNCHANGED notRateLimiter

\* a mutant: the 400 response gives the newest slot of an identifier back
BodyReadRefunds(route, valid) ==
    /\ rlInFlight[<<route, "body">>] > 0
    /\ rlInFlight' = [rlInFlight EXCEPT
                        ![<<route, "body">>] = @ - 1,
                        ![<<route, "work">>] = IF valid THEN @ + 1 ELSE @]
    /\ rlInvalid' = IF valid THEN rlInvalid ELSE rlInvalid + 1
    /\ \E id \in Identifiers :
        rlRequests' = IF valid \/ rlRequests[id] = <<>> THEN rlRequests
                      ELSE [rlRequests EXCEPT
                               ![id] = SubSeq(@, 1, Len(@) - 1)]
    /\ UNCHANGED <<rlNow, rlAdmitted, rlRejected, rlCalls, rlLast>>
    /\ UNCHANGED notRateLimiter

\* await req.json() and sanitizeRequest: the request is rejected with 400
\* or goes on to its work (the model calls, the browser)
BodyRead(route, valid) ==
    /\ rlInFlight[<<route, "body">>] > 0
    /\ rlInFlight' = [rlInFlight EXCEPT
                        ![<<route, "body">>] = @ - 1,
                        ![<<route, "work">>] = IF valid THEN @ + 1 ELSE @]
    /\ rlInvalid' = IF valid THEN rlInvalid ELSE rlInvalid + 1
    /\ UNCHANGED <<rlRequests, rlNow, rlAdmitted, rlRejected, rlCalls, rlLast>>
    /\ UNCHANGED notRateLimiter

\* the work of the request ends and the response is sent
Respond(route) ==
    /\ rlInFlight[<<route, "work">>] > 0
    /\ rlInFlight' = [rlInFlight EXCEPT ![<<route, "work">>] = @ - 1]
    /\ UNCHANGED <<rlRequests, rlNow, rlAdmitted, rlRejected, rlCalls, rlLast, rlInvalid>>
    /\ UNCHANGED notRateLimiter

-----------------------------------------------------------------------------
(* The fallback scrape of the page-level route: String.prototype.match and *)
(* matchAll with the patterns of summaryPatterns and testTitlePatterns.    *)
(* A match is [found, cap, end]: the capture and the position after it.    *)

UpperCase == "ABCDEFGHIJKLMNOPQRSTUVWXYZ"
LowerCase == "abcdefghijklmnopqrstuvwxyz"

\* the character as the i flag compares it
LowerChar(c) ==
    IF IndexOf(UpperCase, c) > 0 THEN Ch(LowerCase, IndexOf(UpperCase, c)) ELSE c

\* the word is at position i of the text, whatever the case of its letters
StartsWithAtAnyCase(s, i, word) ==
    /\ i >= 1
    /\ i + Len(word) - 1 <= Len(s)
    /\ \A j \in 1..Len(word) : LowerChar(Ch(s, i + j - 1)) = Ch(word, j)

NoMatch == [found |-> FALSE, cap |-> "", end |-> 0]
Matched(cap, end) == [found |-> TRUE, cap |-> cap, end |-> end]

\* the position of the first double quote at or after i, 0 where none is
QuoteFrom(s, i) ==
    IF \E j \in i..Len(s) : Ch(s, j) = "\""
    THEN Min({j \in i..Len(s) : Ch(s, j) = "\""})
    ELSE 0

\* "([^"]*)" at position i: an opening quote, the capture, the closing quote
QuotedAt(s, i) ==
    IF i <= Len(s) /\ Ch(s, i) = "\"" /\ QuoteFrom(s, i + 1) > 0
    THEN Matched(SubSeq(s, i + 1, QuoteFrom(s, i + 1) - 1), QuoteFrom(s, i + 1) + 1)
    ELSE NoMatch

\* \s*:\s* from position i: the position after it, 0 where it does not match
ColonAt(s, i) ==
    IF SkipWs(s, i) <= Len(s) /\ Ch(s, SkipWs(s, i)) = ":"
    THEN SkipWs(s, SkipWs(s, i) + 1)
    ELSE 0

\* /"word"\s*:\s*"([^"]*)"/ at position i
StrictPatternAt(s, word, i) ==
    IF StartsWithAt(s, i, "\"" \o word \o "\"") /\ ColonAt(s, i + Len(word) + 2) > 0
    THEN QuotedAt(s, ColonAt(s, i + Len(word) + 2))
    ELSE NoMatch

\* the characters of the class ["\s:]
Separators == WhiteSpace \cup {"\"", ":"}

\* the position after the longest run of separators that starts at i
RECURSIVE SkipSeparators(_, _)
SkipSeparators(s, i) ==
    IF i <= Len(s) /\ Ch(s, i) \in Separators THEN SkipSeparators(s, i + 1) ELSE i

\* the quotes of the run from..to-1 at which ["\s:]+ can stop and
\* "([^"]*)" go on to match: at least one separator is before them and a
\* closing quote after them
OpeningQuotes(s, from, to) ==
    {q \in (from + 1)..(to - 1) : Ch(s, q) = "\"" /\ QuoteFrom(s, q + 1) > 0}

\* /word["\s:]+"([^"]*)"/i at position i: the run of separators is taken as
\* long as it can be
LoosePatternIn(s, from, to) ==
    IF OpeningQuotes(s, from, to) = {} THEN NoMatch
    ELSE QuotedAt(s, Max(OpeningQuotes(s, from, to)))

LoosePatternAt(s, word, i) ==
    IF StartsWithAtAnyCase(s, i, word)
    THEN LoosePatternIn(s, i + Len(word), SkipSeparators(s, i + Len(word)))
    ELSE NoMatch

\* the position after the longest run of [^"] that starts at i
UnquotedEnd(s, i) == IF QuoteFrom(s, i) > 0 THEN QuoteFrom(s, i) ELSE Len(s) + 1

\* the positions of from+1..to at which ([^"]+) can start
BareStarts(s, from, to) ==
    {q \in (from + 1)..to : q <= Len(s) /\ Ch(s, q) # "\""}

\* /word["\s:]+([^"]+)/i at position i
BarePatternIn(s, from, to) ==
    IF BareStarts(s, from, to) = {} THEN NoMatch
    ELSE Matched(SubSeq(s, Max(BareStarts(s, from, to)),
                        UnquotedEnd(s, Max(BareStarts(s, from, to))) - 1),
                 UnquotedEnd(s, Max(BareStarts(s, from, to))))

BarePatternAt(s, word, i) ==
    IF StartsWithAtAnyCase(s, i, word)
    THEN BarePatternIn(s, i + Len(word), SkipSeparators(s, i + Len(word)))
    ELSE NoMatch

\* pattern number k of summaryPatterns (1..3) and of testTitlePatterns
\* (1..2), for its word, at position i
PatternAt(s, word, k, i) ==
    CASE k = 1 -> StrictPatternAt(s, word, i)
      [] k = 2 -> LoosePatternAt(s, word, i)
      [] OTHER -> BarePatternAt(s, word, i)

\* the positions at or after from at which the pattern matches
MatchStarts(s, word, k, from) ==
    {i \in from..Len(s) : PatternAt(s, word, k, i).found}

\* the leftmost match of the pattern at or after position from
MatchFrom(s, word, k, from) ==
    IF MatchStarts(s, word, k, from) = {} THEN NoMatch
    ELSE PatternAt(s, word, k, Min(MatchStarts(s, word, k, from)))

NumSummaryPatterns == 3
NumTitlePatterns == 2

\* for (const pattern of summaryPatterns): the capture of the first pattern
\* whose leftmost match has a capture that is not empty
RECURSIVE ScrapeSummaryFrom(_, _)
ScrapeSummaryFrom(s, k) ==
    IF k > NumSummaryPatterns THEN ""
    ELSE IF MatchFrom(s, "summary", k, 1).cap # "" THEN MatchFrom(s, "summary", k, 1).cap
    ELSE ScrapeSummaryFrom(s, k + 1)

ScrapeSummary(s) == ScrapeSummaryFrom(s, 1)

\* a mutant: the title is pushed though a test has it already
PushTitleAgain(titles, cap) == IF cap # "" THEN Append(titles, cap) ELSE titles

\* partialData.tests.push(...) unless the title is empty or already there
PushTitle(titles, cap) ==
    IF cap # "" /\ \A i \in 1..Len(titles) : titles[i] # cap
    THEN Append(titles, cap)
    ELSE titles

RECURSIVE TitlesFrom(_, _, _, _)

\* one step of for (const match of matches)
TitlesAfter(s, k, m, titles) ==
    IF ~m.found THEN titles
    ELSE TitlesFrom(s, k, m.end, PushTitle(titles, m.cap))

\* lastResponseText.matchAll(pattern): the matches from left to right, each
\* starting where the one before ended
TitlesFrom(s, k, from, titles) ==
    TitlesAfter(s, k, MatchFrom(s, "title", k, from), titles)

\* for (const pattern of testTitlePatterns): the titles of the first pattern
\* that finds one
RECURSIVE ScrapeTitlesFrom(_, _)
ScrapeTitlesFrom(s, k) ==
    IF k > NumTitlePatterns THEN <<>>
    ELSE IF TitlesFrom(s, k, 1, <<>>) # <<>> THEN TitlesFrom(s, k, 1, <<>>)
    ELSE ScrapeTitlesFrom(s, k + 1)

ScrapeTitles(s) == ScrapeTitlesFrom(s, 1)

-----------------------------------------------------------------------------
(* POST of the two generation routes                                       *)
(* (src/app/api/ai-testgen-elements/route.ts): the request bodies, the     *)
(* errors thrown, the responses, and callAIWithRetry.  The warning sign    *)
(* that opens the notes and the error message is written (!).              *)

\* const maxRetries = 2 (element-level), 3 (page-level)
MaxRetries(route) == IF route = "element" THEN 2 ELSE 3

\* a mutant: one attempt more is made
RetriesLeftInclusive(route, attempt) == attempt <= MaxRetries(route)

\* attempt < maxRetries
RetriesLeft(route, attempt) == attempt < MaxRetries(route)

\* a mutant: the temperature of the first call, for every call
TemperatureOfFirst(attempt) == "0.7"

\* temperature: attempt === 1 ? 0.7 : 0.3
Temperature(attempt) == IF attempt = 1 THEN "0.7" ELSE "0.3"

\* a mutant: a wait of the same length after every attempt
BackoffFlat(attempt) == 1000

\* 1000 * attempt, the delay of setTimeout
Backoff(attempt) == 1000 * attempt

Error(name, message) == [name |-> name, message |-> message]

\* String.prototype.includes
Includes(s, lit) == \E i \in 1..Len(s) : StartsWithAt(s, i, lit)

\* err instanceof Error && err.message.includes("Failed to parse")
IsParseError(err) == Includes(err.message, "Failed to parse")

\* throw new Error("Failed to parse after all retries")
ExhaustedError == Error("Error", "Failed to parse after all retries")

\* what client.chat.completions.create, or reading choices[0] of a response
\* with no choices, throws
TransportErrors == {
    Error("APIConnectionError", "Connection error."),
    Error("BadRequestError", "400 Failed to parse the request body"),
    Error("TypeError", "Cannot read properties of undefined (reading 'message')") }

\* what await req.json() throws for a body that is no JSON
BodySyntaxError == Error("SyntaxError", "Unexpected end of JSON input")

\* the request bodies: whether req.json() parses them, what validateUrl and
\* validateUserDescription say of their fields, whether htmlElements is a
\* non-empty array
RequestBody(parses, url, description, elements) ==
    [parses |-> parses, url |-> url, description |-> description, elements |-> elements]

Bodies == {
    RequestBody(TRUE, "accepted", "accepted", TRUE),
    RequestBody(TRUE, "accepted", "accepted", FALSE),
    RequestBody(TRUE, "missing", "accepted", TRUE),
    RequestBody(TRUE, "rejected", "rejected", TRUE),
    RequestBody(FALSE, "missing", "accepted", FALSE) }

NoBody == RequestBody(FALSE, "missing", "accepted", FALSE)

\* sanitizeRequest(body).errors
SanitizeErrors(body) ==
    (CASE body.url = "missing" -> <<"URL: URL is required">>
       [] body.url = "rejected" -> <<"URL: Invalid URL format">>
       [] OTHER -> <<>>)
    \o (IF body.description = "rejected"
        THEN <<"Description: Description is too long (max 10,000 characters)">>
        ELSE <<>>)

\* Array.prototype.join
RECURSIVE Join(_, _)
Join(q, sep) ==
    IF q = <<>> THEN ""
    ELSE IF Len(q) = 1 THEN q[1]
    ELSE q[1] \o sep \o Join(Tail(q), sep)

DecimalDigits == "0123456789"

\* String(n) for a natural number
RECURSIVE Decimal(_)
Decimal(n) ==
    IF n < 10 THEN Ch(DecimalDigits, n + 1)
    ELSE Decimal(n \div 10) \o Ch(DecimalDigits, (n % 10) + 1)

Response(status, body) == [status |-> status, body |-> body]
NoResponse == Response(0, JsUndefined)

\* { summary, tests: [] } with further properties
Result(summary, keys, vals) ==
    JsObject(<<"summary", "tests">> \o keys, <<JsString(summary), EmptyArray>> \o vals)

\* the 429 response
RateLimited(resetTime) ==
    Response(429, Result("Rate limit exceeded. Please try again later.",
                         <<"resetTime">>, <<JsNumber(Decimal(resetTime))>>))

\* a mutant: the 400 response without the errors
ValidationFailedBare(errors) == Response(400, Result("Validation failed", <<>>, <<>>))

\* the 400 response of a body sanitizeRequest rejects
ValidationFailed(errors) ==
    Response(400, Result("Validation failed: " \o Join(errors, ", "), <<>>, <<>>))

\* the 400 response of the element-level route without htmlElements
NoElements ==
    Response(400, Result("No HTML elements provided or invalid format", <<>>, <<>>))

\* the catch of POST: the element-level route flags the result, the
\* page-level route does not
OuterCatch(route, err) ==
    IF route = "element"
    THEN Response(500, Result("Error generating element tests: " \o err.message,
                              <<"_error">>, <<JsBool("true")>>))
    ELSE Response(500, Result("Error generating tests: " \o err.message, <<>>, <<>>))

\* return NextResponse.json(aiData)
Ok(aiData) == Response(200, aiData)

TruncationNote(route) ==
    IF route = "element"
    THEN "\n\n(!) Note: Response was truncated."
    ELSE "\n\n(!) Note: Response was truncated. Some tests may be incomplete."

\* String(v), as + applies it to a value that is no string
RECURSIVE JsToString(_), JoinItems(_, _)
JsToString(v) ==
    CASE v.t \in {"string", "number", "boolean"} -> v.s
      [] v.t = "array" -> JoinItems(v.items, 1)
      [] v.t = "object" -> "[object Object]"
      [] OTHER -> v.t

JoinItems(items, i) ==
    IF i > Len(items) THEN ""
    ELSE (IF i > 1 THEN "," ELSE "")
            \o (IF items[i].t \in {"undefined", "null"} THEN "" ELSE JsToString(items[i]))
            \o JoinItems(items, i + 1)

\* (aiData.summary || "")
SummaryOrEmpty(summary) == IF IsFalsy(summary) THEN "" ELSE JsToString(summary)

\* if (finishReason === "length") aiData.summary = (aiData.summary || "") + note
WithTruncationNote(route, aiData, finishReason) ==
    IF finishReason = "length"
    THEN SetProp(aiData, "summary",
                 JsString(SummaryOrEmpty(GetProp(aiData, "summary")) \o TruncationNote(route)))
    ELSE aiData

\* the entry pushed to partialData.tests for a title
PartialTest(title) ==
    JsObject(<<"title", "why", "steps", "code">>,
             <<JsString(title), JsString("Test data incomplete - parsing failed"),
               EmptyArray,
               JsString("// Test code could not be parsed. Please try regenerating.")>>)

\* the errorMessage of the fallback
ErrorMessage(summary) ==
    "(!) Failed to parse AI response after 3 retry attempts. The model may not have returned valid JSON."
    \o (IF summary # "" THEN "\n\nPartial summary extracted: " \o summary ELSE "")
    \o "\n\nTroubleshooting:\n- The model may need more explicit JSON formatting instructions\n- Try increasing MAX_TOKENS if response was truncated\n- Check if the model supports JSON mode"

\* lastResponseText.substring(0, 1000)
RawResponse(text) == SubSeq(text, 1, Min({1000, Len(text)}))

\* the aiData the catch of the page-level route builds from the scrape
FallbackData(summary, titles, text) ==
    JsObject(<<"summary", "tests", "_error", "_rawResponse">>,
             <<JsString(ErrorMessage(summary)),
               JsArray([i \in 1..Len(titles) |-> PartialTest(titles[i])]),
               JsBool("true"),
               JsString(RawResponse(text))>>)

Fallback(lastResponseText) ==
    FallbackData(ScrapeSummary(lastResponseText), ScrapeTitles(lastResponseText),
                 lastResponseText)

-----------------------------------------------------------------------------
(* A generation request from its arrival to its response: the steps of     *)
(* POST between its awaits.  Requests are served one after the other, at   *)
(* most MaxGenRequests of them.                                            *)

MaxGenRequests == 3

\* what the model answers: a document of the asked form, bare and fenced;
\* an object without summary; an array; prose; truncated documents; prose
\* that names a summary and titles; and nothing
ModelTexts == {
    "{\"summary\":\"ok\",\"tests\":[{\"title\":\"A\"}]}",
    "~~~json\n{\"summary\":\"ok\",\"tests\":[]}\n~~~",
    "{\"tests\":[]}",
    "[1]",
    "I cannot help with that.",
    "{\"summary\":\"partial\",\"tests\":[{\"title\":\"A\"},{\"title\":\"A\"},{\"title\":\"B\"",
    "{\"summary\":\"ok\"",
    "Summary: two tests. Title: \"Login\" and title \"Logout\" follow",
    "" }

\* tryParseJSON(text, finishReason) of each route for each of the texts,
\* and the fallback of the page-level route for each
ParseResults ==
    [route \in Routes, text \in ModelTexts, finishReason \in FinishReasons |->
        tryParseJSON(route, text, finishReason)]

Fallbacks == [text \in ModelTexts |-> Fallback(text)]

\* a mutant: the fallback scrapes the empty text
RejectedScrapesNothing(route, err, lastResponseText) ==
    IF route = "element" THEN OuterCatch(route, err)
    ELSE Ok(Fallbacks[""])

\* await callAIWithRetry() rejects: the element-level route has its one
\* catch, that of POST; the page-level route catches it and falls back
Rejected(route, err, lastResponseText) ==
    IF route = "element" THEN OuterCatch(route, err)
    ELSE Ok(Fallbacks[lastResponseText])

\* a call of the model: its attempt number, the prompt and temperature it
\* was made with, how it ended, and the text of its response if it ended
\* with one
Call(attempt, strict) ==
    [attempt |-> attempt, strict |-> strict, temperature |-> Temperature(attempt),
     outcome |-> "pending", text |-> ""]

\* the calls, the last of which ended with the outcome
Ended(calls, outcome) == [calls EXCEPT ![Len(calls)].outcome = outcome]

\* the calls, the last of which returned the text
WithText(calls, text) == [calls EXCEPT ![Len(calls)].text = text]

GenIdle ==
    /\ gPc = "idle"
    /\ gRoute = "page"
    /\ gBody = NoBody
    /\ gAttempt = 0
    /\ gStrict = FALSE
    /\ gCalls = <<>>
    /\ gDelays = <<>>
    /\ gLastResponseText = ""
    /\ gResponse = NoResponse
    /\ gRequests = 0

\* the variables of the other parts, which the steps of a generation request
\* leave alone
notGen == <<parseVars, rlNow, restVars>>

\* the bookkeeping of the limiter's part for a request that leaves a stage
Leaves(route, stage) == [rlInFlight EXCEPT ![<<route, stage>>] = @ - 1]
Moves(route, from, to) ==
    [rlInFlight EXCEPT ![<<route, from>>] = @ - 1, ![<<route, to>>] = @ + 1]

\* the rate limit check answered: the 429 response, or on to the body
Checked(route, body, resetTime, allowed) ==
    /\ gPc' = IF allowed THEN "body" ELSE "done"
    /\ gResponse' = IF allowed THEN NoResponse ELSE RateLimited(resetTime)
    /\ gRoute' = route
    /\ gBody' = body
    /\ gAttempt' = 0
    /\ gStrict' = FALSE
    /\ gCalls' = <<>>
    /\ gDelays' = <<>>
    /\ gLastResponseText' = ""
    /\ gRequests' = gRequests + 1

\* POST starts: the rate limit check, up to await req.json()
GenCheck(route, id, body, r) ==
    /\ AfterCheck(route, id, r)
    /\ Checked(route, body, getResetTime(r.requests, id), r.allowed)

GenArrive(route, id, body) ==
    /\ gPc \in {"idle", "done"}
    /\ gRequests < MaxGenRequests
    /\ GenCheck(route, id, body, isAllowed(rlRequests, id, rlNow))
    /\ UNCHANGED notGen

\* the request ends with the response
Finish(stage, response) ==
    /\ gPc' = "done"
    /\ gResponse' = response
    /\ rlInFlight' = Leaves(gRoute, stage)

\* const aiData = await callAIWithRetry(): the first call is issued
StartCalls ==
    /\ gPc' = "calling"
    /\ gAttempt' = 1
    /\ gStrict' = FALSE
    /\ gCalls' = <<Call(1, FALSE)>>
    /\ gResponse' = NoResponse
    /\ rlInFlight' = Moves(gRoute, "body", "work")

\* await req.json(), sanitizeRequest and the check of htmlElements: the
\* catch of POST, a 400 response, or on to the model
GenBodyRead ==
    /\ gPc = "body"
    /\ IF ~gBody.parses
       THEN Finish("body", OuterCatch(gRoute, BodySyntaxError))
                /\ UNCHANGED <<gAttempt, gStrict, gCalls>>
       ELSE IF SanitizeErrors(gBody) # <<>>
       THEN Finish("body", ValidationFailed(SanitizeErrors(gBody)))
                /\ UNCHANGED <<gAttempt, gStrict, gCalls>>
       ELSE IF gRoute = "element" /\ ~gBody.elements
       THEN Finish("body", NoElements) /\ UNCHANGED <<gAttempt, gStrict, gCalls>>
       ELSE StartCalls
    /\ rlInvalid' = IF gPc' = "done" /\ gResponse'.status = 400
                    THEN rlInvalid + 1 ELSE rlInvalid
    /\ UNCHANGED <<gRoute, gBody, gDelays, gLastResponseText, gRequests>>
    /\ UNCHANGED <<rlRequests, rlAdmitted, rlRejected, rlCalls, rlLast>>
    /\ UNCHANGED notGen

\* await new Promise(resolve => setTimeout(resolve, 1000 * attempt)), with
\* callAIWithRetry(attempt + 1, strict) to come
Retry(strict) ==
    /\ gPc' = "backoff"
    /\ gStrict' = strict
    /\ gDelays' = Append(gDelays, Backoff(gAttempt))
    /\ UNCHANGED <<gResponse, rlInFlight>>

\* a mutant: the catch makes the call again with the other prompt, without
\* a wait and without counting it, unless the error is that of the parse
ThrownUncounted(err, lastResponseText) ==
    IF ~IsParseError(err)
    THEN /\ gPc' = "calling"
         /\ gStrict' = ~gStrict
         /\ UNCHANGED <<gDelays, gResponse, rlInFlight>>
    ELSE Finish("work", Rejected(gRoute, err, lastResponseText))
            /\ UNCHANGED <<gStrict, gDelays>>

\* catch (err): another call unless none is left or the error is that of
\* the parse; what is thrown again passes the earlier calls, which returned
\* the promise of this one without awaiting it, and rejects the
\* callAIWithRetry() that POST awaits
Thrown(err, lastResponseText) ==
    IF RetriesLeft(gRoute, gAttempt) /\ ~IsParseError(err)
    THEN Retry(gStrict)
    ELSE Finish("work", Rejected(gRoute, err, lastResponseText))
            /\ UNCHANGED <<gStrict, gDelays>>

\* after tryParseJSON: the data is returned, another call is made with the
\* strict prompt, or the error of the parse is thrown
Parsed(parseResult, text, finishReason) ==
    IF parseResult.success /\ ~IsFalsy(parseResult.data)
    THEN Finish("work", Ok(WithTruncationNote(gRoute, parseResult.data, finishReason)))
            /\ UNCHANGED <<gStrict, gDelays>>
    ELSE IF RetriesLeft(gRoute, gAttempt)
    THEN Retry(TRUE)
    ELSE Thrown(ExhaustedError, text)

\* how the call ended
Outcome(parseResult) ==
    IF parseResult.success /\ ~IsFalsy(parseResult.data) THEN "parsed" ELSE "parse failure"

\* the model's response is there: lastResponseText is set and the text parsed
Answered(parseResult, text, finishReason) ==
    /\ gLastResponseText' = text
    /\ gCalls' = WithText(Ended(gCalls, Outcome(parseResult)), text)
    /\ Parsed(parseResult, text, finishReason)

\* client.chat.completions.create resolves with a response
ModelReturns(text, finishReason) ==
    /\ gPc = "calling"
    /\ Answered(ParseResults[gRoute, text, finishReason], text, finishReason)
    /\ UNCHANGED <<gRoute, gBody, gAttempt, gRequests>>
    /\ UNCHANGED <<rlRequests, rlAdmitted, rlRejected, rlCalls, rlLast, rlInvalid>>
    /\ UNCHANGED notGen

\* client.chat.completions.create rejects, or the response has no choices
ModelFails(err) ==
    /\ gPc = "calling"
    /\ gCalls' = Ended(gCalls, "transport failure")
    /\ Thrown(err, gLastResponseText)
    /\ UNCHANGED <<gRoute, gBody, gAttempt, gLastResponseText, gRequests>>
    /\ UNCHANGED <<rlRequests, rlAdmitted, rlRejected, rlCalls, rlLast, rlInvalid>>
    /\ UNCHANGED notGen

\* the timer fires: return callAIWithRetry(attempt + 1, strict)
BackoffDone ==
    /\ gPc = "backoff"
    /\ gPc' = "calling"
    /\ gAttempt' = gAttempt + 1
    /\ gCalls' = Append(gCalls, Call(gAttempt + 1, gStrict))
    /\ UNCHANGED <<gRoute, gBody, gStrict, gDelays, gLastResponseText, gResponse, gRequests>>
    /\ UNCHANGED rlVars
    /\ UNCHANGED <<parseVars, restVars>>

-----------------------------------------------------------------------------
(* validateUrl and isPrivateIP (src/unnamed/part_002, lines 257-361), with *)
(* new URL(...) as far as its protocol and hostname go: the scheme is      *)
(* lower-cased; the host of an http or https URL is lower-cased, an IPv4   *)
(* address is written as four decimal numbers, an IPv6 address stays in    *)
(* its brackets.  Numbers of an IPv4 address are read as decimal ones, and *)
(* the IPv6 addresses posted are in the form the serializer writes.        *)

\* String.prototype.toLowerCase
RECURSIVE ToLowerCase(_)
ToLowerCase(s) ==
    IF Len(s) <= 1 THEN LowerChar(s)
    ELSE ToLowerCase(SubSeq(s, 1, Len(s) \div 2))
            \o ToLowerCase(SubSeq(s, (Len(s) \div 2) + 1, Len(s)))

\* String.prototype.split for a one-character separator
RECURSIVE Split(_, _)
Split(s, c) ==
    IF IndexOf(s, c) = 0 THEN <<s>>
    ELSE <<SubSeq(s, 1, IndexOf(s, c) - 1)>>
            \o Split(SubSeq(s, IndexOf(s, c) + 1, Len(s)), c)

IsDigits(s) == s # "" /\ \A i \in 1..Len(s) : Ch(s, i) \in Digits

RECURSIVE DecimalValue(_)
DecimalValue(s) ==
    IF s = "" THEN 0
    ELSE 10 * DecimalValue(SubSeq(s, 1, Len(s) - 1))
            + (IndexOf(DecimalDigits, Ch(s, Len(s))) - 1)

\* Number(part) for a part of a host name; -1 stands for NaN
Number(part) ==
    IF part = "" THEN 0
    ELSE IF IsDigits(part) THEN DecimalValue(part)
    ELSE -1

UrlFail == [ok |-> FALSE, protocol |-> "", hostname |-> ""]
UrlOk(scheme, hostname) == [ok |-> TRUE, protocol |-> scheme \o ":", hostname |-> hostname]

SchemeChars == {Ch(LowerCase, i) : i \in 1..Len(LowerCase)} \cup Digits \cup {"+", "-", "."}

\* the text before the colon is a scheme: a letter, then letters, digits,
\* plus, minus and dots
IsScheme(s) ==
    /\ s # ""
    /\ Ch(s, 1) \in SchemeChars \ (Digits \cup {"+", "-", "."})
    /\ \A i \in 1..Len(s) : Ch(s, i) \in SchemeChars

\* the characters that end the authority of an http or https URL
AuthorityEnds == {"/", "\\", "?", "#"}

\* the position of the first character of the text from i on that is in the
\* set, the length of the text plus one if there is none
FirstOf(s, i, set) ==
    Min({j \in i..Len(s) : Ch(s, j) \in set} \cup {Len(s) + 1})

\* the position after the slashes and backslashes that follow the scheme
RECURSIVE SkipSlashes(_, _)
SkipSlashes(s, i) ==
    IF i <= Len(s) /\ Ch(s, i) \in {"/", "\\"} THEN SkipSlashes(s, i + 1) ELSE i

\* the authority without its credentials
AfterCredentials(authority) ==
    SubSeq(authority, LastIndexOf(authority, "@") + 1, Len(authority))

\* host and port of the authority: a bracketed host ends at its bracket,
\* another at the first colon
HostEnd(hostport) ==
    IF StartsWithAt(hostport, 1, "[")
    THEN IndexOf(hostport, "]")
    ELSE FirstOf(hostport, 1, {":"}) - 1

PortOk(port) ==
    \/ port = ""
    \/ /\ StartsWithAt(port, 1, ":")
       /\ Len(port) = 1 \/ IsDigits(SubSeq(port, 2, Len(port)))
       /\ Len(port) <= 6
       /\ DecimalValue(SubSeq(port, 2, Len(port))) <= 65535

ForbiddenHostChars == {" ", "#", "/", ":", "<", ">", "?", "@", "[", "\\", "]", "^", "|", "%"}

\* the parts of a host that ends in a number, without the empty last one
Ipv4Parts(parts) ==
    IF Len(parts) > 1 /\ parts[Len(parts)] = ""
    THEN SubSeq(parts, 1, Len(parts) - 1)
    ELSE parts

RECURSIVE Power256(_)
Power256(n) == IF n = 0 THEN 1 ELSE 256 * Power256(n - 1)

\* the four numbers of the address that the parts, 1 to 4 of them, write:
\* the last part fills the numbers the others leave
Ipv4Numbers(parts) ==
    [k \in 1..4 |->
        IF k < Len(parts) THEN DecimalValue(parts[k])
        ELSE (DecimalValue(parts[Len(parts)]) \div Power256(4 - k)) % 256]

Ipv4Ok(parts) ==
    /\ Len(parts) <= 4
    /\ \A k \in 1..Len(parts) : IsDigits(parts[k]) /\ Len(parts[k]) <= 10
    /\ \A k \in 1..(Len(parts) - 1) : DecimalValue(parts[k]) <= 255
    /\ DecimalValue(parts[Len(parts)]) < Power256(5 - Len(parts))

Dotted(numbers) ==
    Decimal(numbers[1]) \o "." \o Decimal(numbers[2]) \o "."
        \o Decimal(numbers[3]) \o "." \o Decimal(numbers[4])

\* the host parser for a host that is not in brackets
ParseDomain(scheme, host, parts) ==
    IF \E i \in 1..Len(host) : Ch(host, i) \in ForbiddenHostChars THEN UrlFail
    ELSE IF ~IsDigits(parts[Len(parts)]) THEN UrlOk(scheme, host)
    ELSE IF Ipv4Ok(parts) THEN UrlOk(scheme, Dotted(Ipv4Numbers(parts)))
    ELSE UrlFail

HexDigits == Digits \cup {"a", "b", "c", "d", "e", "f"}

\* the host parser for a host in brackets
ParseIpv6(scheme, host) ==
    IF /\ Len(host) > 2
       /\ Ch(host, Len(host)) = "]"
       /\ IndexOf(host, ":") > 0
       /\ \A i \in 2..(Len(host) - 1) : Ch(host, i) \in HexDigits \cup {":"}
    THEN UrlOk(scheme, host)
    ELSE UrlFail

ParseHost(scheme, host) ==
    IF host = "" THEN UrlFail
    ELSE IF StartsWithAt(host, 1, "[") THEN ParseIpv6(scheme, ToLowerCase(host))
    ELSE ParseDomain(scheme, ToLowerCase(host),
                     Ipv4Parts(Split(ToLowerCase(host), ".")))

ParseHostPort(scheme, hostport, hostEnd) ==
    IF hostEnd = 0 \/ ~PortOk(SubSeq(hostport, hostEnd + 1, Len(hostport))) THEN UrlFail
    ELSE ParseHost(scheme, SubSeq(hostport, 1, hostEnd))

ParseAuthority(scheme, hostport) == ParseHostPort(scheme, hostport, HostEnd(hostport))

\* what follows the colon of the scheme: the host of an http or https URL is
\* parsed; the host of another URL is not read by validateUrl
ParseAfterScheme(scheme, rest, from) ==
    IF scheme \notin {"http", "https"} THEN UrlOk(scheme, "")
    ELSE ParseAuthority(scheme,
            AfterCredentials(SubSeq(rest, from, FirstOf(rest, from, AuthorityEnds) - 1)))

\* new URL(text): protocol and hostname, or the TypeError
ParseUrlAt(text, colon) ==
    IF colon = 0 \/ ~IsScheme(ToLowerCase(SubSeq(text, 1, colon - 1))) THEN UrlFail
    ELSE ParseAfterScheme(ToLowerCase(SubSeq(text, 1, colon - 1)),
                          SubSeq(text, colon + 1, Len(text)),
                          SkipSlashes(SubSeq(text, colon + 1, Len(text)), 1))

ParseUrl(text) == ParseUrlAt(text, IndexOf(text, ":"))

UrlRejected(error) == [isValid |-> FALSE, error |-> error, sanitizedValue |-> ""]
UrlAccepted(value) == [isValid |-> TRUE, error |-> "", sanitizedValue |-> value]

\* b >= 16 && b <= 31
InPrivate172(b) == b >= 16 /\ b <= 31

\* isPrivateIP(hostname), of the parts and their numbers
IsPrivateParts(parts, a, b) ==
    IF Len(parts) # 4 THEN FALSE
    ELSE \/ a = 10
         \/ a = 172 /\ InPrivate172(b)
         \/ a = 192 /\ b = 168
         \/ a = 127

isPrivateIP(hostname) ==
    IsPrivateParts(Split(hostname, "."), Number(Split(hostname, ".")[1]),
                   IF Len(Split(hostname, ".")) > 1 THEN Number(Split(hostname, ".")[2]) ELSE -1)

blockedHosts == {"localhost", "127.0.0.1", "0.0.0.0", "::1"}

internalHosts == {"internal", "intranet", "corp", "company", "enterprise"}

IncludesAnyCase(s, word) == \E i \in 1..Len(s) : StartsWithAtAnyCase(s, i, word)

\* one of suspiciousPatterns matches
Suspicious(text) ==
    \/ Includes(text, "..")
    \/ \E i \in 1..Len(text) : Ch(text, i) \in {"<", ">", "'", "\""}
    \/ IncludesAnyCase(text, "javascript:")
    \/ IncludesAnyCase(text, "data:")
    \/ IncludesAnyCase(text, "vbscript:")

\* validateUrl from new URL(trimmedUrl) on
ValidateParsed(trimmedUrl, parsedUrl, production) ==
    IF ~parsedUrl.ok THEN UrlRejected("Invalid URL format")
    ELSE IF parsedUrl.protocol \notin {"http:", "https:"}
    THEN UrlRejected("Only HTTP and HTTPS URLs are allowed")
    ELSE IF production /\ ToLowerCase(parsedUrl.hostname) \in blockedHosts
    THEN UrlRejected("Localhost URLs are not allowed in production")
    ELSE IF production /\ isPrivateIP(ToLowerCase(parsedUrl.hostname))
    THEN UrlRejected("Private IP addresses are not allowed")
    ELSE IF production /\ \E host \in internalHosts :
                            Includes(ToLowerCase(parsedUrl.hostname), host)
    THEN UrlRejected("Internal network URLs are not allowed")
    ELSE IF Suspicious(trimmedUrl)
    THEN UrlRejected("URL contains potentially malicious content")
    ELSE UrlAccepted(trimmedUrl)

ValidateTrimmed(trimmedUrl, production) ==
    IF Len(trimmedUrl) > 2048 THEN UrlRejected("URL is too long (max 2048 characters)")
    ELSE ValidateParsed(trimmedUrl, ParseUrl(trimmedUrl), production)

validateUrl(url, production) ==
    IF url = "" THEN UrlRejected("URL is required and must be a string")
    ELSE ValidateTrimmed(Trim(url), production)

\* the schemes a URL is posted with, none among them
Schemes == {"http", "https", "HTTP", "ftp", "file", "javascript", ""}

\* a host as the URL writes it, and what it is
Host(written, kind) == [written |-> written, kind |-> kind]

Hosts == {
    Host("localhost", "localhost"), Host("LOCALHOST", "localhost"),
    Host("127.0.0.1", "localhost"), Host("0.0.0.0", "localhost"),
    Host("[::1]", "localhost"),
    Host("10.0.0.5", "private"), Host("10.1", "private"),
    Host("172.16.0.1", "private"), Host("172.31.255.255", "private"),
    Host("192.168.1.1", "private"), Host("127.5.5.5", "private"),
    Host("intranet.example.com", "internal"), Host("corp", "internal"),
    Host("wiki.internal", "internal"),
    Host("example.com", "public"), Host("8.8.8.8", "public"),
    Host("172.32.0.1", "public"), Host("192.169.1.1", "public"),
    Host("11.0.0.1", "public") }

\* what follows the host
Tails == {"", "/", ":8080/app", "/a/../b "}

Compose(scheme, host, tail) ==
    IF scheme = "" THEN host.written \o tail
    ELSE scheme \o "://" \o host.written \o tail

NoValidation == UrlRejected("")

ValidateStart ==
    /\ vPc = "posted"
    /\ vScheme \in Schemes
    /\ vHost \in Hosts
    /\ vTail \in Tails
    /\ vUrl = Compose(vScheme, vHost, vTail)
    /\ vProduction \in BOOLEAN
    /\ vResult = NoValidation
    /\ vUsed = ""

ValidateIdle ==
    /\ vPc = "idle"
    /\ vScheme = ""
    /\ vHost = Host("", "public")
    /\ vTail = ""
    /\ vUrl = ""
    /\ vProduction = FALSE
    /\ vResult = NoValidation
    /\ vUsed = ""

\* sanitizeRequest validates body.url; the route answers 400 when it is
\* rejected and goes on with the sanitized URL, to page.goto and to the
\* prompt, when it is accepted
Validated(result) ==
    /\ vResult' = result
    /\ vPc' = IF result.isValid THEN "used" ELSE "rejected"
    /\ vUsed' = IF result.isValid THEN result.sanitizedValue ELSE ""

SanitizeUrl ==
    /\ vPc = "posted"
    /\ Validated(validateUrl(vUrl, vProduction))
    /\ UNCHANGED <<vScheme, vHost, vTail, vUrl, vProduction>>
    /\ UNCHANGED <<parseVars, rlVars, genVars, snapVars, storageVars, scanVars>>

-----------------------------------------------------------------------------
(* The storage of the AiTestGen page: DatabaseService.saveTestSession and  *)
(* getLatestTestsForUrl (src/unnamed/part_002, lines 40-114), and          *)
(* loadStoredTests and saveStoredTests with their localStorage fallback    *)
(* (src/unnamed/part_000, lines 109-156).  One call is under way at a      *)
(* time, MaxStorageCalls of them in all; a query of the database and a     *)
(* write or read of localStorage can fail.                                 *)

MaxStorageCalls == 2

StoredUrls == {"https://a.test/", "https://b.test/"}

LoginTest ==
    JsObject(<<"title", "why", "steps", "code">>,
             <<JsString("Login"), JsString("the form signs the user in"),
               JsArray(<<JsString("visit \"/login\""), JsString("type\tthe name\nsubmit")>>),
               JsString("cy.get('#user').type(\"a\\\\b\")")>>)

SearchTest == JsObject(<<"title", "category">>, <<JsString("Search"), JsString("forms")>>)

\* the tests, the summary and the description a save is called with
TestLists == {<<LoginTest>>, <<SearchTest, LoginTest>>}
Summaries == {JsString("General Tests:\nTwo \"quoted\" tests"), JsUndefined}
Descriptions == {JsString("checkout"), JsUndefined}

\* Date.now(), as the number is written
Clock == {"1700000000000"}

\* `testflow_tests_${url}`
Key(url) == "testflow_tests_" \o url

Keys == {Key(url) : url \in StoredUrls}

\* x || y
OrElse(x, y) == IF IsFalsy(x) THEN y ELSE x

\* the row createMany writes for a test
TestRow(test) ==
    [title |-> OrElse(GetProp(test, "title"), JsString("Untitled Test")),
     description |-> OrElse(GetProp(test, "why"), GetProp(test, "description")),
     code |-> OrElse(GetProp(test, "code"), JsString("")),
     category |-> OrElse(GetProp(test, "category"), JsString("general"))]

\* the test getLatestTestsForUrl makes of the k-th row of the session
RowTest(row, k) ==
    JsObject(<<"id", "title", "why", "code", "category">>,
             <<JsNumber(Decimal(k)), row.title, row.description, row.code, row.category>>)

\* what getLatestTestsForUrl returns for the session, and loadStoredTests
\* returns of it
SessionData(session) ==
    JsObject(<<"url", "tests", "summary", "timestamp">>,
             <<JsString(session.url),
               JsArray([k \in 1..Len(session.rows) |-> RowTest(session.rows[k], k)]),
               JsString(""),
               JsNumber(session.createdAt)>>)

\* the sessions of the URL, by their place
SessionsOf(url) == {i \in 1..Len(dbSessions) : dbSessions[i].url = url}

\* a mutant: the data without the summary
StoredTestDataBare(args, now) ==
    JsObject(<<"url", "tests", "timestamp">>,
             <<JsString(args.url), JsArray(args.tests), JsNumber(now)>>)

\* const data: StoredTestData = { url, tests, summary, timestamp, userDescription }
StoredTestData(args, now) ==
    JsObject(<<"url", "tests", "summary", "timestamp", "userDescription">>,
             <<JsString(args.url), JsArray(args.tests), args.summary, JsNumber(now),
               args.userDescription>>)

NoArgs == [op |-> "none", url |-> "", tests |-> <<>>, summary |-> JsUndefined,
           userDescription |-> JsUndefined]

SaveArgs(url, tests, summary, userDescription) ==
    [op |-> "save", url |-> url, tests |-> tests, summary |-> summary,
     userDescription |-> userDescription]

LoadArgs(url) == [NoArgs EXCEPT !.op = "load", !.url = url]

\* JSON.stringify(data) for each save, and JSON.parse of each item stored
StoredItems ==
    [url \in StoredUrls, tests \in TestLists, summary \in Summaries,
     userDescription \in Descriptions, now \in Clock |->
        Stringify(StoredTestData(SaveArgs(url, tests, summary, userDescription), now))]

Reloaded ==
    [text \in {StoredItems[x] : x \in DOMAIN StoredItems} \cup {""} |-> JSONParse(text)]

\* how a call ended: returned or raised, with the value returned, whether
\* the database threw, and whether localStorage took or gave the item
CallEnded(args, outcome, value, db, storage) ==
    [op |-> args.op, url |-> args.url, outcome |-> outcome, value |-> value,
     db |-> db, storage |-> storage]

NoResult == CallEnded(NoArgs, "none", JsUndefined, "none", FALSE)

NoSave == [db |-> "none", written |-> FALSE, tests |-> <<>>, summary |-> JsUndefined]

StorageIdle ==
    /\ dbAvailable = FALSE
    /\ dbSessions = <<>>
    /\ lsItems = [key \in Keys |-> ""]
    /\ stPc = "idle"
    /\ stArgs = NoArgs
    /\ stResult = NoResult
    /\ stLastSave = [url \in StoredUrls |-> NoSave]
    /\ stCalls = 0

StorageStart ==
    /\ dbAvailable \in BOOLEAN
    /\ dbSessions = <<>>
    /\ lsItems = [key \in Keys |-> ""]
    /\ stPc = "idle"
    /\ stArgs = NoArgs
    /\ stResult = NoResult
    /\ stLastSave = [url \in StoredUrls |-> NoSave]
    /\ stCalls = 0

notStorage == <<parseVars, rlVars, genVars, snapVars, validateVars, scanVars>>

\* the call of saveStoredTests ends; stLastSave keeps what it was called with
SaveEnds(args, db, written) ==
    /\ stPc' = "idle"
    /\ stResult' = CallEnded(args, "returned", JsUndefined, db, written)
    /\ stLastSave' = [stLastSave EXCEPT ![args.url] =
                        [db |-> db, written |-> written, tests |-> args.tests,
                         summary |-> args.summary]]

\* the catch of saveStoredTests: localStorage.setItem(key, JSON.stringify(data)),
\* which throws when the browser does not take the item; that is caught too
FallbackSave(args, now, accepted) ==
    /\ lsItems' = IF accepted
                  THEN [lsItems EXCEPT ![Key(args.url)] =
                            StoredItems[args.url, args.tests, args.summary,
                                        args.userDescription, now]]
                  ELSE lsItems
    /\ SaveEnds(args, "threw", accepted)

\* saveStoredTests is called: saveTestSession throws at once when the
\* database is not available, and awaits prisma.testSession.create when it is
SaveStoredTests(url, tests, summary, userDescription, now, accepted) ==
    /\ stPc = "idle"
    /\ stCalls < MaxStorageCalls
    /\ stCalls' = stCalls + 1
    /\ stArgs' = SaveArgs(url, tests, summary, userDescription)
    /\ IF dbAvailable
       THEN /\ stPc' = "create session"
            /\ UNCHANGED <<lsItems, stResult, stLastSave>>
       ELSE FallbackSave(SaveArgs(url, tests, summary, userDescription), now, accepted)
    /\ UNCHANGED <<dbAvailable, dbSessions>>
    /\ UNCHANGED notStorage

\* await prisma.testSession.create(...) resolves with the session or rejects
SessionCreated(ok, now, accepted) ==
    /\ stPc = "create session"
    /\ IF ok
       THEN /\ dbSessions' = Append(dbSessions,
                                [url |-> stArgs.url, rows |-> <<>>, createdAt |-> now])
            /\ stPc' = "create tests"
            /\ UNCHANGED <<lsItems, stResult, stLastSave>>
       ELSE /\ FallbackSave(stArgs, now, accepted)
            /\ UNCHANGED dbSessions
    /\ UNCHANGED <<dbAvailable, stArgs, stCalls>>
    /\ UNCHANGED notStorage

\* await prisma.test.createMany(...) resolves or rejects
TestsCreated(ok, now, accepted) ==
    /\ stPc = "create tests"
    /\ IF ok
       THEN /\ dbSessions' = [dbSessions EXCEPT ![Len(dbSessions)].rows =
                                [k \in 1..Len(stArgs.tests) |-> TestRow(stArgs.tests[k])]]
            /\ SaveEnds(stArgs, "saved", FALSE)
            /\ UNCHANGED lsItems
       ELSE /\ FallbackSave(stArgs, now, accepted)
            /\ UNCHANGED dbSessions
    /\ UNCHANGED <<dbAvailable, stArgs, stCalls>>
    /\ UNCHANGED notStorage

\* stored ? JSON.parse(stored) : null, null too when JSON.parse throws
ParseStored(stored, parsed) ==
    IF stored = "" \/ ~parsed.ok THEN JsNull ELSE parsed.v

\* the fallback of loadStoredTests: localStorage.getItem and JSON.parse in a
\* try whose catch returns null
FallbackLoad(args, db, readable) ==
    /\ stPc' = "idle"
    /\ stResult' = CallEnded(args, "returned",
                          IF readable
                          THEN ParseStored(lsItems[Key(args.url)],
                                           Reloaded[lsItems[Key(args.url)]])
                          ELSE JsNull,
                          db, readable)

\* loadStoredTests is called: getLatestTestsForUrl throws at once when the
\* database is not available, and awaits prisma.testSession.findFirst when
\* it is
LoadStoredTests(url, readable) ==
    /\ stPc = "idle"
    /\ stCalls < MaxStorageCalls
    /\ stCalls' = stCalls + 1
    /\ stArgs' = LoadArgs(url)
    /\ IF dbAvailable
       THEN stPc' = "find session" /\ UNCHANGED stResult
       ELSE FallbackLoad(LoadArgs(url), "threw", readable)
    /\ UNCHANGED <<dbAvailable, dbSessions, lsItems, stLastSave>>
    /\ UNCHANGED notStorage

\* await prisma.testSession.findFirst(...) resolves with the latest session
\* of the URL or with none, or rejects
SessionFound(ok, readable) ==
    /\ stPc = "find session"
    /\ IF ok /\ SessionsOf(stArgs.url) # {}
       THEN /\ stPc' = "idle"
            /\ stResult' = CallEnded(stArgs, "returned",
                                  SessionData(dbSessions[Max(SessionsOf(stArgs.url))]),
                                  "answered", FALSE)
       ELSE FallbackLoad(stArgs, IF ok THEN "answered" ELSE "threw", readable)
    /\ UNCHANGED <<dbAvailable, dbSessions, lsItems, stArgs, stLastSave, stCalls>>
    /\ UNCHANGED notStorage

-----------------------------------------------------------------------------
(* POST of the snapshot route (src/unnamed/part_001): the steps of a       *)
(* request between its awaits, for two requests under way at a time and   *)
(* MaxSnapRequests in all.  A request launches a browser, opens a page,    *)
(* navigates and extracts; the finally block closes the browser.           *)

MaxSnapRequests == 3

\* the handler invocations that can be under way together
Handlers == {"one", "other"}

\* the awaits of the try block from the launch on, in the order of the code
Awaits ==
    <<"launch", "newPage", "goto", "screenshot", "title", "headings",
      "buttons", "inputs", "links", "evaluate">>

AwaitNames == {Awaits[i] : i \in 1..Len(Awaits)}

\* the await that follows
NextAwait(name) == Awaits[(CHOOSE i \in 1..Len(Awaits) : Awaits[i] = name) + 1]

\* a mutant: the 429 response without the reset time
SnapRateLimitedBare(resetTime) ==
    Response(429, JsObject(<<"error">>,
                           <<JsString("Rate limit exceeded. Please try again later.")>>))

\* the 429 response
SnapRateLimited(resetTime) ==
    Response(429, JsObject(<<"error", "resetTime">>,
                           <<JsString("Rate limit exceeded. Please try again later."),
                             JsNumber(Decimal(resetTime))>>))

\* the 400 response: details is sanitized.errors
SnapValidationFailed(errors) ==
    Response(400, JsObject(<<"error", "details">>,
                           <<JsString("Validation failed"),
                             JsArray([i \in 1..Len(errors) |-> JsString(errors[i])])>>))

\* the 500 response of the catch
SnapFailed == Response(500, JsObject(<<"error">>, <<JsString("Failed to load page")>>))

\* the 200 response: what was extracted, not modelled further
Snapshot ==
    Response(200, JsObject(<<"screenshot", "domData", "htmlElements">>,
                           <<JsString("png"), JsObject(<<>>, <<>>), EmptyArray>>))

SnapIdle ==
    /\ sPc = [h \in Handlers |-> "idle"]
    /\ sBody = [h \in Handlers |-> NoBody]
    /\ sBrowser = [h \in Handlers |-> "undefined"]
    /\ sThrew = [h \in Handlers |-> "none"]
    /\ sResponse = [h \in Handlers |-> NoResponse]
    /\ sSessions = 0
    /\ sRequests = 0

\* the variables of the other parts, which the steps of a snapshot request
\* leave alone
notSnap == <<parseVars, genVars, rlNow, validateVars, storageVars, scanVars>>

\* a mutant: the handler completes without the finally block
NoFinally(h, stage, response, threw) ==
    /\ sResponse' = [sResponse EXCEPT ![h] = response]
    /\ sThrew' = [sThrew EXCEPT ![h] = threw]
    /\ sPc' = [sPc EXCEPT ![h] = "done"]
    /\ rlInFlight' = Leaves("snapshot", stage)

\* a return or the catch, and then finally { if (browser) await
\* browser.close() }: the handler completes with the response, at once
\* unless a browser is to be closed first
Finally(h, stage, response, threw) ==
    /\ sResponse' = [sResponse EXCEPT ![h] = response]
    /\ sThrew' = [sThrew EXCEPT ![h] = threw]
    /\ sPc' = [sPc EXCEPT ![h] = IF sBrowser[h] = "open" THEN "closing" ELSE "done"]
    /\ rlInFlight' = IF sBrowser[h] = "open" THEN rlInFlight
                     ELSE Leaves("snapshot", stage)

\* the rate limit check answered: the 429 response, or on to the body
SnapChecked(h, body, resetTime, allowed) ==
    /\ sPc' = [sPc EXCEPT ![h] = IF allowed THEN "body" ELSE "done"]
    /\ sResponse' = [sResponse EXCEPT ![h] =
                        IF allowed THEN NoResponse ELSE SnapRateLimited(resetTime)]
    /\ sBody' = [sBody EXCEPT ![h] = body]
    /\ sBrowser' = [sBrowser EXCEPT ![h] = "undefined"]
    /\ sThrew' = [sThrew EXCEPT ![h] = "none"]
    /\ sRequests' = sRequests + 1

SnapCheck(h, id, body, r) ==
    /\ AfterCheck("snapshot", id, r)
    /\ SnapChecked(h, body, getResetTime(r.requests, id), r.allowed)

\* POST starts: let browser, the rate limit check, up to await req.json()
SnapArrive(h, id, body) ==
    /\ sPc[h] \in {"idle", "done"}
    /\ sRequests < MaxSnapRequests
    /\ SnapCheck(h, id, body, isAllowed(rlRequests, id, rlNow))
    /\ UNCHANGED sSessions
    /\ UNCHANGED notSnap

\* await req.json() and sanitizeRequest: the catch, the 400 response, or on
\* to await playwright.chromium.launch()
SnapBodyRead(h) ==
    /\ sPc[h] = "body"
    /\ IF ~sBody[h].parses
       THEN Finally(h, "body", SnapFailed, "body")
       ELSE IF SanitizeErrors(sBody[h]) # <<>>
       THEN Finally(h, "body", SnapValidationFailed(SanitizeErrors(sBody[h])), "none")
       ELSE /\ sPc' = [sPc EXCEPT ![h] = "launch"]
            /\ rlInFlight' = Moves("snapshot", "body", "work")
            /\ UNCHANGED <<sResponse, sThrew>>
    /\ rlInvalid' = IF sResponse'[h].status = 400 THEN rlInvalid + 1 ELSE rlInvalid
    /\ UNCHANGED <<sBody, sBrowser, sSessions, sRequests>>
    /\ UNCHANGED <<rlRequests, rlAdmitted, rlRejected, rlCalls, rlLast>>
    /\ UNCHANGED notSnap

\* an await of the try block resolves: browser is assigned when it is the
\* launch; after the last one the 200 response is returned
AwaitResolves(h) ==
    /\ sPc[h] \in AwaitNames
    /\ sBrowser' = IF sPc[h] = "launch" THEN [sBrowser EXCEPT ![h] = "open"] ELSE sBrowser
    /\ sSessions' = IF sPc[h] = "launch" THEN sSessions + 1 ELSE sSessions
    /\ IF sPc[h] = Awaits[Len(Awaits)]
       THEN Finally(h, "work", Snapshot, "none")
       ELSE /\ sPc' = [sPc EXCEPT ![h] = NextAwait(sPc[h])]
            /\ UNCHANGED <<sResponse, sThrew, rlInFlight>>
    /\ UNCHANGED <<sBody, sRequests>>
    /\ UNCHANGED <<rlRequests, rlAdmitted, rlRejected, rlCalls, rlLast, rlInvalid>>
    /\ UNCHANGED notSnap

\* an await of the try block rejects: the catch answers 500
AwaitRejects(h) ==
    /\ sPc[h] \in AwaitNames
    /\ Finally(h, "work", SnapFailed, sPc[h])
    /\ UNCHANGED <<sBody, sBrowser, sSessions, sRequests>>
    /\ UNCHANGED <<rlRequests, rlAdmitted, rlRejected, rlCalls, rlLast, rlInvalid>>
    /\ UNCHANGED notSnap

\* await browser.close() resolves and the handler completes
CloseResolves(h) ==
    /\ sPc[h] = "closing"
    /\ sPc' = [sPc EXCEPT ![h] = "done"]
    /\ sBrowser' = [sBrowser EXCEPT ![h] = "closed"]
    /\ sSessions' = sSessions - 1
    /\ rlInFlight' = Leaves("snapshot", "work")
    /\ UNCHANGED <<sBody, sThrew, sResponse, sRequests>>
    /\ UNCHANGED <<rlRequests, rlAdmitted, rlRejected, rlCalls, rlLast, rlInvalid>>
    /\ UNCHANGED notSnap

-----------------------------------------------------------------------------
(* scanPage of the AiTestGen page (src/unnamed/part_000, lines 191-352):   *)
(* the snapshot request, the two generation requests under                 *)
(* Promise.allSettled, the combination, and the merge with the tests       *)
(* stored for the URL, which it loads and saves through loadStoredTests    *)
(* and saveStoredTests.  The page scans one URL, MaxScans times in all.    *)

MaxScans == 2

ScanUrl == "https://a.test/"

\* the description typed into the analysis field
Analysis == JsString("checkout")

\* a promise given to Promise.allSettled: pending, or settled with the
\* Response of fetch or with null
NullValue == Response(0, JsNull)
NoPromise == [status |-> "none", value |-> NullValue]
PromisePending == [status |-> "pending", value |-> NullValue]
PromiseRejected == [status |-> "rejected", value |-> NullValue]
PromiseFulfilled(value) == [status |-> "fulfilled", value |-> value]

\* a body res.json() rejects for
NotJson == JsUndefined

\* an aiData a route returns with tests
Generated(summary, tests) ==
    JsObject(<<"summary", "tests">>, <<JsString(summary), JsArray(tests)>>)

\* how the request to /api/ai-testgen settles: the fetch rejects, or the
\* route answers with tests, with the degraded result of its fallback, with
\* 429, with 400, with the 500 of its catch, or a proxy answers with a page
GeneralOutcomes == {
    PromiseRejected,
    PromiseFulfilled(Ok(Generated("the page signs users in", <<LoginTest>>))),
    PromiseFulfilled(Rejected("page", ExhaustedError,
                              "Summary: two tests. Title: \"Login\" and title \"Logout\" follow")),
    PromiseFulfilled(RateLimited(60000)),
    PromiseFulfilled(ValidationFailed(<<"URL is required and must be a string">>)),
    PromiseFulfilled(OuterCatch("page", BodySyntaxError)),
    PromiseFulfilled(Response(502, NotJson)) }

\* tests of the element-level route: one with the title of the page-level
\* test, one whose title differs from it in case and white space
ElementLoginTest ==
    JsObject(<<"title", "code">>, <<JsString("Login"), JsString("cy.get('form').submit()")>>)

LoginVariantTest == JsObject(<<"title">>, <<JsString("login ")>>)

\* how the request to /api/ai-testgen-elements settles
ElementOutcomes == {
    PromiseRejected,
    PromiseFulfilled(Ok(Generated("the form searches", <<SearchTest>>))),
    PromiseFulfilled(Ok(Generated("the form logs in", <<ElementLoginTest, LoginVariantTest>>))),
    PromiseFulfilled(Rejected("element", ExhaustedError, "")),
    PromiseFulfilled(RateLimited(60000)),
    PromiseFulfilled(NoElements),
    PromiseFulfilled(Response(502, NotJson)) }

\* let generalTestsData = { tests: [], summary: "" }
DefaultData == JsObject(<<"tests", "summary">>, <<EmptyArray, JsString("")>>)

\* the data read of a settled promise: await value.json() of a fulfilled
\* one that is not null, in a try whose catch keeps the default
SettledData(promise) ==
    IF promise.status = "fulfilled" /\ promise.value # NullValue
          /\ promise.value.body # NotJson
    THEN promise.value.body
    ELSE DefaultData

\* data.tests || []
TestsOrNone(data) ==
    IF IsFalsy(GetProp(data, "tests")) THEN <<>> ELSE GetProp(data, "tests").items

\* data.summary && label + data.summary, for filter(Boolean)
SummaryPart(label, data) ==
    IF IsFalsy(GetProp(data, "summary")) THEN <<>>
    ELSE <<label \o JsToString(GetProp(data, "summary"))>>

\* [...].filter(Boolean).join("\n\n")
CombinedSummary(general, element) ==
    Join(SummaryPart("General Tests:\n", general) \o SummaryPart("Element Tests:\n", element),
         "\n\n")

\* a mutant: aiData takes the flag of the page-level data alone
AiDataGeneralFlag(general, element) ==
    SetProp(SetProp(SetProp(general, "tests",
                            JsArray(TestsOrNone(general) \o TestsOrNone(element))),
                    "summary",
                    OrElse(JsString(CombinedSummary(general, element)),
                           GetProp(general, "summary"))),
            "_error",
            OrElse(GetProp(general, "_error"), JsBool("false")))

\* const aiData = { ...generalTestsData, tests, summary, _error }
AiData(general, element) ==
    SetProp(SetProp(SetProp(general, "tests",
                            JsArray(TestsOrNone(general) \o TestsOrNone(element))),
                    "summary",
                    OrElse(JsString(CombinedSummary(general, element)),
                           GetProp(general, "summary"))),
            "_error",
            OrElse(OrElse(GetProp(general, "_error"), GetProp(element, "_error")),
                   JsBool("false")))

\* aiData._error, as a condition
Flagged(data) == ~IsFalsy(GetProp(data, "_error"))

\* previousData && previousData.tests.length > 0 && !aiData._error
Merges(aiData, previousData) ==
    /\ ~IsFalsy(previousData)
    /\ Len(GetProp(previousData, "tests").items) > 0
    /\ ~Flagged(aiData)

\* a mutant: the titles are compared without regard to case and to white
\* space around them
UniqueNewTestsNormalized(newTests, previousTests) ==
    SelectSeq(newTests,
              LAMBDA t : \A i \in 1..Len(previousTests) :
                            ToLowerCase(Trim(GetProp(previousTests[i], "title").s))
                                # ToLowerCase(Trim(GetProp(t, "title").s)))

\* newTests.filter(t => !existingTitles.has(t.title))
UniqueNewTests(newTests, previousTests) ==
    SelectSeq(newTests,
              LAMBDA t : \A i \in 1..Len(previousTests) :
                            GetProp(previousTests[i], "title") # GetProp(t, "title"))

\* the tests setAiTests is called with
ShownTests(aiData, previousData) ==
    IF Merges(aiData, previousData)
    THEN GetProp(previousData, "tests").items
            \o UniqueNewTests(TestsOrNone(aiData), GetProp(previousData, "tests").items)
    ELSE TestsOrNone(aiData)

\* the summary setAiSummary is called with
ShownSummary(aiData, previousData) ==
    IF Merges(aiData, previousData)
    THEN OrElse(GetProp(aiData, "summary"), GetProp(previousData, "summary"))
    ELSE GetProp(aiData, "summary")

\* what saveStoredTests is called with, if it is called
SavedOf(aiData, previousData) ==
    IF Flagged(aiData) THEN NoArgs
    ELSE SaveArgs(ScanUrl, ShownTests(aiData, previousData),
                  ShownSummary(aiData, previousData), Analysis)

ScanIdle ==
    /\ scPc = "idle"
    /\ scScans = 0
    /\ scGeneral = NoPromise
    /\ scElement = NoPromise
    /\ scAiData = JsUndefined
    /\ scPrevious = JsUndefined
    /\ scSaved = NoArgs
    /\ aiTests = <<>>
    /\ aiSummary = JsString("")
    /\ hasError = FALSE
    /\ loading = FALSE
    /\ shownFor = ScanUrl
    /\ pageUrl = ScanUrl
    /\ ldPending = {}
    /\ edits = 0

\* the variables of the other parts, which scanPage leaves alone
notScan == <<parseVars, rlVars, genVars, snapVars, validateVars,
             dbAvailable, stPc, stArgs, stResult, stLastSave, stCalls>>

\* the button or the Enter key calls scanPage, which neither does while
\* loading; scanPage runs up to its await of the snapshot request
ScanPage ==
    /\ ~loading
    /\ pageUrl = ScanUrl
    /\ scScans < MaxScans
    /\ scScans' = scScans + 1
    /\ scPc' = "snapshot"
    /\ loading' = TRUE
    /\ hasError' = FALSE
    /\ scGeneral' = NoPromise
    /\ scElement' = NoPromise
    /\ scAiData' = JsUndefined
    /\ scPrevious' = JsUndefined
    /\ scSaved' = NoArgs
    /\ UNCHANGED <<aiTests, aiSummary, shownFor, fieldVars, dbSessions, lsItems>>
    /\ UNCHANGED notScan

\* the snapshot request settles: if fetch or res.json() rejects, the catch
\* and the finally block run; otherwise the two generation requests are
\* issued, the element-level one only for a non-empty data.htmlElements
SnapshotSettles(ok, htmlElements) ==
    /\ scPc = "snapshot"
    /\ IF ok
       THEN /\ scPc' = "generating"
            /\ scGeneral' = PromisePending
            /\ scElement' = IF htmlElements THEN PromisePending
                            ELSE PromiseFulfilled(NullValue)
            /\ UNCHANGED <<aiTests, aiSummary, hasError, loading, shownFor>>
       ELSE /\ scPc' = "done"
            /\ hasError' = TRUE
            /\ aiSummary' = JsString("Error: Failed to scan page or generate tests. Failed to fetch")
            /\ aiTests' = <<>>
            /\ shownFor' = ScanUrl
            /\ loading' = FALSE
            /\ UNCHANGED <<scGeneral, scElement>>
    /\ UNCHANGED <<scScans, scAiData, scPrevious, scSaved, fieldVars, dbSessions, lsItems>>
    /\ UNCHANGED notScan

\* the request to /api/ai-testgen settles
GeneralSettles(outcome) ==
    /\ scPc = "generating"
    /\ scGeneral = PromisePending
    /\ scGeneral' = outcome
    /\ UNCHANGED <<scPc, scScans, scElement, scAiData, scPrevious, scSaved,
                   aiTests, aiSummary, hasError, loading, shownFor, fieldVars,
                   dbSessions, lsItems>>
    /\ UNCHANGED notScan

\* the request to /api/ai-testgen-elements settles
ElementSettles(outcome) ==
    /\ scPc = "generating"
    /\ scElement = PromisePending
    /\ scElement' = outcome
    /\ UNCHANGED <<scPc, scScans, scGeneral, scAiData, scPrevious, scSaved,
                   aiTests, aiSummary, hasError, loading, shownFor, fieldVars,
                   dbSessions, lsItems>>
    /\ UNCHANGED notScan

\* await Promise.allSettled([...]) resolves
AllSettled ==
    /\ scGeneral.status \in {"fulfilled", "rejected"}
    /\ scElement.status \in {"fulfilled", "rejected"}

\* the combination: both data are read, aiData is built and setHasError
\* called, up to the await of loadStoredTests
Combine ==
    /\ scPc = "generating"
    /\ AllSettled
    /\ scAiData' = AiData(SettledData(scGeneral), SettledData(scElement))
    /\ hasError' = Flagged(scAiData')
    /\ scPc' = "loading"
    /\ UNCHANGED <<scScans, scGeneral, scElement, scPrevious, scSaved,
                   aiTests, aiSummary, loading, shownFor, fieldVars, dbSessions, lsItems>>
    /\ UNCHANGED notScan

\* what loadStoredTests returns: the latest session of the URL if the
\* database answers with one, else the item of localStorage if it can be
\* read and parsed, else null
LoadedDataOf(u, ok, readable) ==
    IF dbAvailable /\ ok /\ SessionsOf(u) # {}
    THEN SessionData(dbSessions[Max(SessionsOf(u))])
    ELSE IF readable
         THEN ParseStored(lsItems[Key(u)], JSONParse(lsItems[Key(u)]))
         ELSE JsNull

\* loadStoredTests(url) of scanPage
LoadedData(ok, readable) == LoadedDataOf(ScanUrl, ok, readable)

\* the tests are shown and saveStoredTests is called, unless aiData is
\* flagged, in which case scanPage ends
Handle(previousData) ==
    /\ scPrevious' = previousData
    /\ aiTests' = ShownTests(scAiData, previousData)
    /\ aiSummary' = ShownSummary(scAiData, previousData)
    /\ shownFor' = ScanUrl
    /\ scSaved' = SavedOf(scAiData, previousData)
    /\ IF Flagged(scAiData)
       THEN scPc' = "done" /\ loading' = FALSE
       ELSE scPc' = "saving" /\ UNCHANGED loading

\* await loadStoredTests(url) resolves
Loaded(ok, readable) ==
    /\ scPc = "loading"
    /\ Handle(LoadedData(ok, readable))
    /\ UNCHANGED <<scScans, scGeneral, scElement, scAiData, hasError, fieldVars,
                   dbSessions, lsItems>>
    /\ UNCHANGED notScan

\* how a call of saveStoredTests ends: the session and its tests are
\* created; or the session is and createMany rejects, or the database does
\* not answer, and localStorage takes the item or does not
SaveEndings == {"database", "session and localStorage", "session", "localStorage", "lost"}

\* await saveStoredTests(...) resolves, and the finally block runs
Saved(ending, now) ==
    /\ scPc = "saving"
    /\ ending \in {"database", "session and localStorage", "session"} => dbAvailable
    /\ dbSessions' =
          CASE ending = "database" ->
                  Append(dbSessions,
                         [url |-> scSaved.url,
                          rows |-> [k \in 1..Len(scSaved.tests) |-> TestRow(scSaved.tests[k])],
                          createdAt |-> now])
            [] ending \in {"session and localStorage", "session"} ->
                  Append(dbSessions, [url |-> scSaved.url, rows |-> <<>>, createdAt |-> now])
            [] OTHER -> dbSessions
    /\ lsItems' =
          IF ending \in {"session and localStorage", "localStorage"}
          THEN [lsItems EXCEPT ![Key(scSaved.url)] = Stringify(StoredTestData(scSaved, now))]
          ELSE lsItems
    /\ scPc' = "done"
    /\ loading' = FALSE
    /\ UNCHANGED <<scScans, scGeneral, scElement, scAiData, scPrevious, scSaved,
                   aiTests, aiSummary, hasError, shownFor, fieldVars>>
    /\ UNCHANGED notScan

\* the URLs typed into the input field, and the field emptied
MaxEdits == 2

OtherUrl == "https://b.test/"

FieldUrls == {ScanUrl, OtherUrl, ""}

\* the variables of scanPage itself
scanOnly == <<scPc, scScans, scGeneral, scElement, scAiData, scPrevious, scSaved,
              hasError, loading>>

\* onChange of the input: setUrl, and the effect on url runs loadTests up to
\* its await of loadStoredTests; for the empty URL it clears the display
EditUrl(u) ==
    /\ edits < MaxEdits
    /\ u # pageUrl
    /\ edits' = edits + 1
    /\ pageUrl' = u
    /\ IF u = ""
       THEN /\ aiTests' = <<>>
            /\ aiSummary' = JsString("")
            /\ shownFor' = ""
            /\ UNCHANGED ldPending
       ELSE /\ ldPending' = ldPending \cup {u}
            /\ UNCHANGED <<aiTests, aiSummary, shownFor>>
    /\ UNCHANGED <<scanOnly, dbSessions, lsItems>>
    /\ UNCHANGED notScan

\* stored.tests.length > 0
HasTests(stored) == ~IsFalsy(stored) /\ Len(GetProp(stored, "tests").items) > 0

\* loadTests after its await: the stored tests and summary are shown, or
\* the display is cleared
LoadShown(u, stored) ==
    /\ aiTests' = IF HasTests(stored) THEN GetProp(stored, "tests").items ELSE <<>>
    /\ aiSummary' = IF HasTests(stored)
                    THEN OrElse(GetProp(stored, "summary"), JsString(""))
                    ELSE JsString("")
    /\ shownFor' = u

\* await loadStoredTests(url) of the effect resolves, for the URL the
\* effect ran with
LoadSettles(u, ok, readable) ==
    /\ u \in ldPending
    /\ ldPending' = ldPending \ {u}
    /\ LoadShown(u, LoadedDataOf(u, ok, readable))
    /\ UNCHANGED <<pageUrl, edits, scanOnly, dbSessions, lsItems>>
    /\ UNCHANGED notScan

\* the parts that came after the generation routes, before any step
RestIdle == SnapIdle /\ ValidateIdle /\ StorageIdle /\ ScanIdle

-----------------------------------------------------------------------------
(* The specifications: tryParseJSON on the enumerated responses; the       *)
(* requests of the three routes at the rate limiter; and the generation    *)
(* requests from arrival to response.                                      *)

ParseInit == ParseStart /\ RateLimiterIdle /\ GenIdle /\ RestIdle

ParseNext == CallTryParseJSON /\ UNCHANGED <<rlVars, genVars, restVars>>

SpecParse == ParseInit /\ [][ParseNext]_vars

RateLimiterInit == ParseIdle /\ RateLimiterIdle /\ GenIdle /\ RestIdle

RateLimiterNext ==
    \/ Tick
    \/ \E route \in LimitedRoutes, id \in Identifiers : Arrive(route, id)
    \/ \E route \in LimitedRoutes, valid \in BOOLEAN : BodyRead(route, valid)
    \/ \E route \in LimitedRoutes : Respond(route)

SpecRateLimiter == RateLimiterInit /\ [][RateLimiterNext]_vars

GenInit == ParseIdle /\ RateLimiterIdle /\ GenIdle /\ RestIdle

GenNext ==
    \/ \E route \in Routes, id \in Identifiers, body \in Bodies :
            GenArrive(route, id, body)
    \/ GenBodyRead
    \/ \E text \in ModelTexts, finishReason \in FinishReasons :
            ModelReturns(text, finishReason)
    \/ \E err \in TransportErrors : ModelFails(err)
    \/ BackoffDone

SpecGen == GenInit /\ [][GenNext]_vars

\* the call of the model under way completes, with a response or an error
ModelCompletes ==
    \/ \E text \in ModelTexts, finishReason \in FinishReasons :
            ModelReturns(text, finishReason)
    \/ \E err \in TransportErrors : ModelFails(err)

\* the generation requests where every model call completes and every
\* timer of a backoff fires
SpecGenFair ==
    GenInit /\ [][GenNext]_vars /\ WF_vars(ModelCompletes) /\ WF_vars(BackoffDone)

SnapshotInit == ParseIdle /\ RateLimiterIdle /\ GenIdle /\ RestIdle

SnapshotNext ==
    \/ \E h \in Handlers, id \in Identifiers, body \in Bodies : SnapArrive(h, id, body)
    \/ \E h \in Handlers : SnapBodyRead(h)
    \/ \E h \in Handlers : AwaitResolves(h)
    \/ \E h \in Handlers : AwaitRejects(h)
    \/ \E h \in Handlers : CloseResolves(h)

SpecSnapshot == SnapshotInit /\ [][SnapshotNext]_vars

ValidateInit ==
    ParseIdle /\ RateLimiterIdle /\ GenIdle /\ SnapIdle /\ StorageIdle /\ ScanIdle
        /\ ValidateStart

ValidateNext == SanitizeUrl

SpecValidate == ValidateInit /\ [][ValidateNext]_vars

StorageInit ==
    ParseIdle /\ RateLimiterIdle /\ GenIdle /\ SnapIdle /\ ValidateIdle /\ ScanIdle
        /\ StorageStart

StorageNext ==
    \/ \E url \in StoredUrls, tests \in TestLists, summary \in Summaries,
          userDescription \in Descriptions, now \in Clock, accepted \in BOOLEAN :
            SaveStoredTests(url, tests, summary, userDescription, now, accepted)
    \/ \E ok \in BOOLEAN, now \in Clock, accepted \in BOOLEAN :
            SessionCreated(ok, now, accepted)
    \/ \E ok \in BOOLEAN, now \in Clock, accepted \in BOOLEAN :
            TestsCreated(ok, now, accepted)
    \/ \E url \in StoredUrls, readable \in BOOLEAN : LoadStoredTests(url, readable)
    \/ \E ok \in BOOLEAN, readable \in BOOLEAN : SessionFound(ok, readable)

SpecStorage == StorageInit /\ [][StorageNext]_vars

ScanInit ==
    /\ ParseIdle /\ RateLimiterIdle /\ GenIdle /\ SnapIdle /\ ValidateIdle /\ ScanIdle
    /\ StorageStart

ScanNext ==
    \/ ScanPage
    \/ \E ok \in BOOLEAN, htmlElements \in BOOLEAN : SnapshotSettles(ok, htmlElements)
    \/ \E outcome \in GeneralOutcomes : GeneralSettles(outcome)
    \/ \E outcome \in ElementOutcomes : ElementSettles(outcome)
    \/ Combine
    \/ \E ok \in BOOLEAN, readable \in BOOLEAN : Loaded(ok, readable)
    \/ \E ending \in SaveEndings, now \in Clock : Saved(ending, now)

SpecScan == ScanInit /\ [][ScanNext]_vars

\* the page with its input field: the scans of ScanUrl, with the
\* generation requests rejected or answered with tests and the save ending
\* in the database or lost, and the edits of the URL with their loads
PageInit == ScanInit

PageNext ==
    \/ ScanPage
    \/ \E ok \in BOOLEAN : SnapshotSettles(ok, TRUE)
    \/ \E outcome \in {PromiseRejected,
                        PromiseFulfilled(Ok(Generated("the page signs users in", <<LoginTest>>)))} :
            GeneralSettles(outcome)
    \/ ElementSettles(PromiseRejected)
    \/ Combine
    \/ \E ok \in BOOLEAN : Loaded(ok, TRUE)
    \/ \E ending \in {"database", "lost"}, now \in Clock : Saved(ending, now)
    \/ \E u \in FieldUrls : EditUrl(u)
    \/ \E u \in FieldUrls \ {""}, ok \in BOOLEAN : LoadSettles(u, ok, TRUE)

SpecPage == PageInit /\ [][PageNext]_vars

-----------------------------------------------------------------------------
(* Claims about the generation routes, under SpecGen *)

\* C1: in a generation request the number of model calls issued never
\* exceeds the ceiling of its route, 2 in the element-level and 3 in the
\* page-level one, whatever mix of parse and transport failures the calls
\* end in; the failures of both kinds are counted by the one attempt
\* number, which is the number of calls issued.
C1_CallsWithinCeiling ==
    /\ Len(gCalls) <= MaxRetries(gRoute)
    /\ Len(gCalls) = gAttempt
    /\ \A i \in 1..Len(gCalls) : gCalls[i].attempt = i

\* a request that ended after as many calls as the ceiling allows, of which
\* one ended in a parse failure and one in a transport failure, none in data
C1_Witness ==
    /\ gPc = "done"
    /\ Len(gCalls) = MaxRetries(gRoute)
    /\ \E i \in 1..Len(gCalls) : gCalls[i].outcome = "parse failure"
    /\ \E i \in 1..Len(gCalls) : gCalls[i].outcome = "transport failure"
    /\ \A i \in 1..Len(gCalls) : gCalls[i].outcome # "parsed"

\* every call of the request ended in a parse failure and none is left
ParseExhausted ==
    /\ gPc = "done"
    /\ Len(gCalls) = MaxRetries(gRoute)
    /\ \A i \in 1..Len(gCalls) : gCalls[i].outcome = "parse failure"

\* C2: in both generation routes a request all of whose attempts ended in a
\* parse failure is answered with a degraded result, status 200 and the
\* error flag set, not with the 500 response of the catch of POST.
C2_ParseExhaustionRecoveredLocally ==
    ParseExhausted =>
        /\ gResponse.status = 200
        /\ GetProp(gResponse.body, "_error") = JsBool("true")

\* the body, as JSON.stringify writes it, is an object with a summary and
\* with tests that are a sequence; an array is written as its elements
\* alone, so that the properties set on it do not reach the caller
HasResultShape(body) ==
    /\ body.t = "object"
    /\ HasProp(body, "summary")
    /\ IsArray(GetProp(body, "tests"))

\* C3: every response of a generation route, on every path (rate limited,
\* validation failure, data parsed, fallback, the catch of POST), carries a
\* summary and tests that are a sequence.
C3_EveryResponseHasResultShape ==
    gPc = "done" => HasResultShape(gResponse.body)

\* C21: provided every model call completes and every backoff timer fires,
\* a callAIWithRetry that was started finishes, with data or with an error:
\* the request reaches its response; and a call that ended in a parse
\* failure on the last attempt is the last call of the request, no wait and
\* no call follows it.
C21_CallAIWithRetryFinishes ==
    /\ (gPc \in {"calling", "backoff"}) ~> (gPc = "done")
    /\ [](\A i \in 1..Len(gCalls) :
            i = MaxRetries(gRoute) /\ gCalls[i].outcome = "parse failure" =>
                /\ gPc = "done"
                /\ Len(gCalls) = i
                /\ Len(gDelays) = i - 1)

\* a request whose first call ended in a transport failure and whose last
\* attempt ended in a parse failure, after which it was answered
C21_Witness ==
    /\ gPc = "done"
    /\ Len(gCalls) = MaxRetries(gRoute)
    /\ gCalls[1].outcome = "transport failure"
    /\ gCalls[Len(gCalls)].outcome = "parse failure"
    /\ Len(gDelays) = Len(gCalls) - 1

\* the fallback of the page-level route ran: callAIWithRetry was rejected
FallbackRan ==
    /\ gPc = "done"
    /\ gRoute = "page"
    /\ gCalls # <<>>
    /\ gCalls[Len(gCalls)].outcome # "parsed"

\* the calls of the request that returned a response, by their place
Responded == {i \in 1..Len(gCalls) : gCalls[i].outcome \in {"parsed", "parse failure"}}

\* the text of the last response the request received, empty if there was none
LastReceived == IF Responded = {} THEN "" ELSE gCalls[Max(Responded)].text

\* C22 (as stated): when the page-level fallback runs, the text it scrapes
\* is the text of the response of the final attempt, the last call issued,
\* also when the last attempts ended in transport failures.
C22_ScrapesFinalAttemptText ==
    FallbackRan =>
        /\ Len(gCalls) \in Responded
        /\ gLastResponseText = gCalls[Len(gCalls)].text
        /\ gResponse = Ok(Fallbacks[gCalls[Len(gCalls)].text])

\* C22 (amended): when the page-level fallback runs, the text it scrapes is
\* the text of the last response the request received: that of the final
\* attempt if it returned one, else that of the latest earlier attempt that
\* did, and the empty text if no attempt returned a response.
C22_ScrapesLastResponseReceived ==
    FallbackRan =>
        /\ gLastResponseText = LastReceived
        /\ gResponse = Ok(Fallbacks[LastReceived])

\* the final attempt ended in a transport failure and the fallback scraped
\* the text of an earlier attempt, which names titles
C22_Witness ==
    /\ FallbackRan
    /\ Len(gCalls) = MaxRetries("page")
    /\ gCalls[Len(gCalls)].outcome = "transport failure"
    /\ Responded # {}
    /\ LastReceived # ""
    /\ gResponse = Ok(Fallbacks[LastReceived])
    /\ Len(GetProp(gResponse.body, "tests").items) > 0

\* C11: the first model call of a request is made with the base prompt and
\* temperature 0.7; a call made after a call that ended in a parse failure
\* has the strict prompt and temperature 0.3; a call made after a call that
\* ended in a transport failure has the prompt of that call, strict or not,
\* and temperature 0.3.
C11_PromptAndTemperatureOfCalls ==
    /\ gCalls # <<>> => ~gCalls[1].strict /\ gCalls[1].temperature = "0.7"
    /\ \A i \in 1..(Len(gCalls) - 1) :
            /\ gCalls[i + 1].temperature = "0.3"
            /\ gCalls[i].outcome = "parse failure" => gCalls[i + 1].strict
            /\ gCalls[i].outcome = "transport failure" =>
                    gCalls[i + 1].strict = gCalls[i].strict

\* the first call ended in a transport failure and the second was made with
\* the base prompt; it ended in a parse failure and the third was made with
\* the strict prompt
C11_Witness ==
    /\ Len(gCalls) = 3
    /\ gCalls[1].outcome = "transport failure"
    /\ ~gCalls[2].strict
    /\ gCalls[2].outcome = "parse failure"
    /\ gCalls[3].strict

\* a strict call ended in a transport failure and the call after it is strict
C11_StrictKeptWitness ==
    /\ Len(gCalls) = 3
    /\ gCalls[2].strict
    /\ gCalls[2].outcome = "transport failure"
    /\ gCalls[3].strict

\* C12: the n-th wait of a request, the one between failed attempt n and
\* attempt n + 1, is of n * 1000 ms whichever kind the failure was, so the
\* waits strictly increase; and attempt n + 1 is issued only once the n-th
\* wait is over: while the request waits there are as many waits as calls,
\* otherwise one fewer.
C12_BackoffGrowsWithAttempt ==
    /\ \A n \in 1..Len(gDelays) : gDelays[n] = n * 1000
    /\ \A m, n \in 1..Len(gDelays) : m < n => gDelays[m] < gDelays[n]
    /\ gCalls # <<>> =>
            Len(gDelays) = IF gPc = "backoff" THEN Len(gCalls) ELSE Len(gCalls) - 1
    /\ \A n \in 1..Len(gDelays) :
            gCalls[n].outcome \in {"parse failure", "transport failure"}

\* two waits, one after a parse failure and one after a transport failure,
\* and the third attempt issued
C12_Witness ==
    /\ gDelays = <<1000, 2000>>
    /\ Len(gCalls) = 3
    /\ {gCalls[1].outcome, gCalls[2].outcome} = {"parse failure", "transport failure"}

\* the page-level request ended after its last attempt failed
PageExhausted ==
    /\ gPc = "done"
    /\ gRoute = "page"
    /\ Len(gCalls) = MaxRetries("page")
    /\ gCalls[Len(gCalls)].outcome # "parsed"

\* the titles of the tests of the response
ResponseTitles ==
    [i \in 1..Len(GetProp(gResponse.body, "tests").items) |->
        GetProp(GetProp(gResponse.body, "tests").items[i], "title").s]

\* the text has the word title, in either case, and after it the title in
\* double quotes
TitleFoundIn(text, title) ==
    \E i, j \in 1..Len(text) :
        /\ i < j
        /\ StartsWithAtAnyCase(text, i, "title")
        /\ StartsWithAt(text, j, "\"" \o title \o "\"")

TitleNames == {"A", "B", "Login", "Logout"}

\* the text has "title":"t" for one of the names
HasTitleField(text) ==
    \E t \in TitleNames, i \in 1..Len(text) :
        StartsWithAt(text, i, "\"title\":\"" \o t \o "\"")

TruncatedWithTitles ==
    "{\"summary\":\"partial\",\"tests\":[{\"title\":\"A\"},{\"title\":\"A\"},{\"title\":\"B\""

ProseWithTitles == "Summary: two tests. Title: \"Login\" and title \"Logout\" follow"

\* C15: a page-level request whose last attempt failed is answered with
\* status 200 and a result with the error flag set; its tests are the
\* entries made for the titles found in the last response text, each title
\* once: no two tests have the same title, every title is non-empty and
\* stands in the text after the word title, tests are there whenever the
\* text has a title field, and the truncated document with the titles A, A,
\* B gives the tests A and B, the prose with Login and Logout those two.
C15_DegradedResultCarriesPartialTests ==
    PageExhausted =>
        /\ gResponse.status = 200
        /\ GetProp(gResponse.body, "_error") = JsBool("true")
        /\ IsArray(GetProp(gResponse.body, "tests"))
        /\ \A i, j \in 1..Len(ResponseTitles) :
                i # j => ResponseTitles[i] # ResponseTitles[j]
        /\ \A i \in 1..Len(ResponseTitles) :
                /\ ResponseTitles[i] # ""
                /\ TitleFoundIn(gLastResponseText, ResponseTitles[i])
                /\ GetProp(gResponse.body, "tests").items[i] = PartialTest(ResponseTitles[i])
        /\ HasTitleField(gLastResponseText) => ResponseTitles # <<>>
        /\ gLastResponseText = TruncatedWithTitles => ResponseTitles = <<"A", "B">>
        /\ gLastResponseText = ProseWithTitles => ResponseTitles = <<"Login", "Logout">>

\* the last response text names the title A twice and B once, and the
\* error-flagged result has the two tests A and B
C15_Witness ==
    /\ PageExhausted
    /\ gLastResponseText = TruncatedWithTitles
    /\ GetProp(gResponse.body, "_error") = JsBool("true")
    /\ ResponseTitles = <<"A", "B">>

\* an error-flagged result without tests: no response text had a title
C15_NoTitleWitness ==
    /\ PageExhausted
    /\ GetProp(gResponse.body, "_error") = JsBool("true")
    /\ ResponseTitles = <<>>

\* sanitizeRequest reports errors for the body
Invalid(body) == body.parses /\ SanitizeErrors(body) # <<>>

-----------------------------------------------------------------------------
(* Claims about the rate limiter, under SpecRateLimiter *)

\* the isAllowed calls for the identifier that returned true before the last
\* call was made
AdmittedBefore ==
    IF rlLast.allowed
    THEN SubSeq(rlAdmitted[rlLast.id], 1, Len(rlAdmitted[rlLast.id]) - 1)
    ELSE rlAdmitted[rlLast.id]

\* those of them made less than the window before the last call
RecentBefore ==
    {i \in 1..Len(AdmittedBefore) : rlLast.time - AdmittedBefore[i] < WindowMs}

\* C9: an isAllowed call for an identifier returns false when MaxRequests
\* calls for it returned true less than WindowMs before it, and returns true
\* when fewer did; so the call after MaxRequests admitted ones in a window is
\* refused, and once WindowMs has passed since them the identifier is
\* admitted again.
C9_RefusedInWindowAdmittedAfter ==
    rlCalls > 0 =>
        (rlLast.allowed <=> Cardinality(RecentBefore) < MaxRequests)

\* MaxRequests calls admitted, one more refused inside their window, and the
\* last call, made once the window has passed since them, admitted
C9_Witness ==
    /\ rlLast.allowed
    /\ Len(AdmittedBefore) = MaxRequests
    /\ rlRejected[rlLast.id] # <<>>
    /\ \A i \in 1..MaxRequests :
            /\ AdmittedBefore[i] <= rlRejected[rlLast.id][1]
            /\ rlRejected[rlLast.id][1] - AdmittedBefore[i] < WindowMs
            /\ rlLast.time - AdmittedBefore[i] >= WindowMs

\* the admitted calls for the identifier with a time in [start, start + WindowMs)
AdmittedIn(id, start) ==
    {i \in 1..Len(rlAdmitted[id]) :
        start <= rlAdmitted[id][i] /\ rlAdmitted[id][i] < start + WindowMs}

\* C10: however the requests of the three routes interleave, for every
\* identifier and every interval of WindowMs time units (closed at its start,
\* open at its end) at most MaxRequests isAllowed calls with a time in the
\* interval returned true.
C10_AtMostMaxRequestsPerWindow ==
    \A id \in Identifiers, start \in 0..MaxTime :
        Cardinality(AdmittedIn(id, start)) <= MaxRequests

\* requests of two routes are in flight, MaxRequests calls for one identifier
\* were admitted in one window and a further one in that window was refused
C10_Witness ==
    /\ \E r1, r2 \in LimitedRoutes, s1, s2 \in Stages :
            r1 # r2 /\ rlInFlight[<<r1, s1>>] > 0 /\ rlInFlight[<<r2, s2>>] > 0
    /\ \E id \in Identifiers :
            /\ rlRejected[id] # <<>>
            /\ Cardinality(AdmittedIn(id, rlRejected[id][1] - WindowMs + 1)) = MaxRequests

-----------------------------------------------------------------------------
(* Claims about tryParseJSON, under SpecParse *)

Returned(k) == pTrace[k].kind = "return"

\* C4: for every text and finish reason tryParseJSON returns a value, success
\* with data or the failure value, and never throws; when no candidate is
\* extracted and parsed to an object, what it returns is the failure value.
C4_TryParseNeverThrows ==
    pPc = "parsed" =>
        /\ pResult.outcome = "returned"
        /\ pResult.success \/ pResult = ParseFailure
        /\ (\A k \in 1..NumStrategies : ~Returned(k)) => pResult = ParseFailure

\* every strategy ran, JSON.parse threw for at least one candidate, and the
\* call returned the failure value
C4_Witness ==
    /\ pPc = "parsed"
    /\ \A k \in 1..NumStrategies : pTrace[k].why \in {"null", "syntax"}
    /\ \E k \in 1..NumStrategies : pTrace[k].why = "syntax"
    /\ pResult = ParseFailure

\* the text lacks exactly one closing brace and is a JSON object once it is
\* appended
OneBraceShort(text) ==
    /\ CountChar(text, "{") = CountChar(text, "}") + 1
    /\ JSONParse(text \o "}").ok
    /\ JSONParse(text \o "}").v.t = "object"

\* C5: a truncated response (finish reason length) that lacks exactly one
\* closing brace and is otherwise well-formed is parsed successfully, at both
\* call sites, from a candidate to which the repair appended one closing
\* brace and nothing else.
C5_RepairAppendsOneBrace ==
    (pPc = "parsed" /\ pFinish = "length" /\ OneBraceShort(pText)) =>
        /\ pResult.success
        /\ \E k \in 1..NumStrategies :
                Returned(k) /\ pTrace[k].prepared = pTrace[k].candidate \o "}"

TruncatedExample == "{\"summary\":\"partial\",\"tests\":[{\"title\":\"A\""

\* C6: the truncated response {"summary":"partial","tests":[{"title":"A" with
\* finish reason length, which ends inside an object of the tests array, is
\* repaired to a parseable object: tryParseJSON reports success, with tests a
\* sequence.
C6_NestedTruncationRepaired ==
    (pPc = "parsed" /\ pFinish = "length" /\ pText = TruncatedExample) =>
        /\ pResult.success
        /\ IsArray(GetProp(pResult.data, "tests"))

\* the response is prose, a fenced block holding a JSON object, and prose
FencedObject ==
    /\ pWrap = "fencedProse"
    /\ pCut = 0
    /\ JSONParse(pDoc).ok
    /\ JSONParse(pDoc).v.t = "object"

\* C7: for a response made of prose, a fenced block whose interior is a JSON
\* object, and more prose, tryParseJSON with a normal finish reason returns
\* success with exactly that object, its tests field coerced to a sequence.
C7_FencedPayloadRecovered ==
    (pPc = "parsed" /\ pFinish = "stop" /\ FencedObject) =>
        /\ pResult.success
        /\ pResult.data = CoerceTests(JSONParse(pDoc).v)

\* C8: whenever tryParseJSON reports success the data has a tests field that
\* is a sequence: the parsed tests where they are a sequence, the empty
\* sequence where the parsed object has no tests or tests of another kind;
\* and a candidate that parses to an object is a success whatever its tests.
C8_SuccessHasTestsSequence ==
    pPc = "parsed" =>
        /\ pResult.success => IsArray(GetProp(pResult.data, "tests"))
        /\ \A k \in 1..NumStrategies :
                pTrace[k].why = "object" =>
                    /\ pResult.success
                    /\ GetProp(pResult.data, "tests") =
                          IF IsArray(GetProp(pTrace[k].parsed, "tests"))
                          THEN GetProp(pTrace[k].parsed, "tests")
                          ELSE EmptyArray

\* a success whose parsed object had a tests field that is no sequence
C8_Witness ==
    /\ pPc = "parsed"
    /\ pResult.success
    /\ \E k \in 1..NumStrategies :
            /\ Returned(k)
            /\ HasProp(pTrace[k].parsed, "tests")
            /\ ~IsArray(GetProp(pTrace[k].parsed, "tests"))
    /\ GetProp(pResult.data, "tests") = EmptyArray

\* JSON.parse of the candidate of strategy k after repair and stripping
ParsedAt(k) == JSONParse(Prepare(pRoute, Strategy(pText, k).s, pFinish))

\* strategy k gives a candidate that parses to a non-null object
ObjectAt(k) ==
    /\ Strategy(pText, k).found
    /\ Strategy(pText, k).s # ""
    /\ ParsedAt(k).ok
    /\ IsNonNullObject(ParsedAt(k).v)

\* the strategies in the order of the code
Order == <<FencedBlock(pText), OuterBraceSlice(pText), LooseBraceMatch(pText), Verbatim(pText)>>

\* C20: tryParseJSON takes the candidates in the order fenced block, slice
\* from the first to the last brace, loose brace pattern, trimmed text, and
\* returns success with the value of the first one that, repaired and
\* stripped, parses to a non-null object (its tests coerced); the candidates
\* before it, absent, unparseable or parsed to another value, made it go on;
\* those after it are not consulted; with no such candidate all are
\* consulted and the failure value is returned.
C20_FirstObjectCandidateWins ==
    pPc = "parsed" =>
        /\ \A k \in 1..NumStrategies : Strategy(pText, k) = Order[k]
        /\ IF \E k \in 1..NumStrategies : ObjectAt(k)
           THEN /\ pResult =
                      ParseSuccess(CoerceTests(
                          ParsedAt(Min({k \in 1..NumStrategies : ObjectAt(k)})).v))
                /\ \A k \in 1..NumStrategies :
                      /\ k < Min({j \in 1..NumStrategies : ObjectAt(j)}) =>
                            pTrace[k].why \in {"null", "syntax", "nonobject"}
                      /\ k > Min({j \in 1..NumStrategies : ObjectAt(j)}) =>
                            pTrace[k] = NotRun
           ELSE /\ pResult = ParseFailure
                /\ \A k \in 1..NumStrategies :
                      pTrace[k].why \in {"null", "syntax", "nonobject"}

\* the fenced block was absent, the slice between the braces parsed to an
\* object and was returned, and the last two strategies were not consulted
C20_Witness ==
    /\ pPc = "parsed"
    /\ pTrace[1].why = "null"
    /\ pTrace[2].why = "object"
    /\ pResult = ParseSuccess(pTrace[2].data)
    /\ pTrace[3] = NotRun
    /\ pTrace[4] = NotRun

\* candidates that did not parse, and after them one that parsed to an
\* object and was returned
C20_AfterSyntaxErrorWitness ==
    /\ pPc = "parsed"
    /\ pResult.success
    /\ \E k \in 1..NumStrategies : pTrace[k].why = "syntax"

\* no candidate but the trimmed text, which parsed to a value that is no
\* object: the failure value was returned
C20_NonObjectWitness ==
    /\ pPc = "parsed"
    /\ \A k \in 1..(NumStrategies - 1) : pTrace[k].why = "null"
    /\ pTrace[NumStrategies].why = "nonobject"
    /\ pResult = ParseFailure

-----------------------------------------------------------------------------
(* Claims about the snapshot route, under SpecSnapshot *)

\* C14: a snapshot request that acquired a browser session never completes
\* with the session open, whether it returned normally or an await of the
\* navigation or extraction rejected; the sessions open in the process are
\* those of the requests still under way, and none once all have completed.
C14_SessionClosedOnEveryExit ==
    /\ \A h \in Handlers : sPc[h] = "done" => sBrowser[h] # "open"
    /\ sSessions = Cardinality({h \in Handlers : sBrowser[h] = "open"})
    /\ (\A h \in Handlers : sPc[h] \in {"idle", "done"}) => sSessions = 0

\* one request completed after the navigation rejected, another after
\* returning the snapshot, each with its session closed
C14_Witness ==
    \E h1, h2 \in Handlers :
        /\ sPc[h1] = "done" /\ sThrew[h1] = "goto"
        /\ sResponse[h1] = SnapFailed /\ sBrowser[h1] = "closed"
        /\ sPc[h2] = "done" /\ sResponse[h2] = Snapshot /\ sBrowser[h2] = "closed"

\* the like of C16 in the snapshot route: the 400 response has the errors
\* as its details, and no browser was launched
SnapshotValidationFailureAnswered400 ==
    \A h \in Handlers :
        /\ (sPc[h] # "idle" /\ Invalid(sBody[h])) =>
                sPc[h] \in {"body", "done"} /\ sBrowser[h] = "undefined"
        /\ (sPc[h] = "done" /\ Invalid(sBody[h]) /\ sResponse[h].status # 429) =>
                /\ sResponse[h].status = 400
                /\ GetProp(sResponse[h].body, "details").items =
                      [i \in 1..Len(SanitizeErrors(sBody[h])) |->
                          JsString(SanitizeErrors(sBody[h])[i])]

\* the step is a rate limit check that returned not-allowed
Refusal == rlCalls' = rlCalls + 1 /\ ~rlLast'.allowed

\* C17: the step of a snapshot request in which isAllowed returns false
\* completes the request with status 429 and a resetTime, the time at which
\* the oldest request of the window leaves it, which lies ahead; the request
\* never reaches the reading and validation of its body, no browser is
\* launched for it; and a 429 response comes from such a step alone.
C17_RefusedRequestAnswered429 ==
    [][/\ Refusal =>
            \E h \in Handlers :
                /\ sPc[h] \in {"idle", "done"}
                /\ sPc'[h] = "done"
                /\ sResponse'[h].status = 429
                /\ GetProp(sResponse'[h].body, "resetTime")
                      = JsNumber(Decimal(rlLast'.resetTime))
                /\ rlLast'.resetTime > rlNow
                /\ sBrowser'[h] = "undefined"
                /\ sSessions' = sSessions
                /\ rlInFlight' = rlInFlight
       /\ \A h \in Handlers :
            (sResponse'[h] # sResponse[h] /\ sResponse'[h].status = 429) => Refusal
      ]_vars

\* a snapshot request refused and answered 429 while the other handler has
\* a browser session open
C17_Witness ==
    \E h1, h2 \in Handlers :
        /\ sPc[h1] = "done"
        /\ sResponse[h1].status = 429
        /\ sBrowser[h1] = "undefined"
        /\ ~rlLast.allowed
        /\ sBrowser[h2] = "open"

\* the like of C17 in the generation routes: the refused request is done
\* with 429 and resetTime, without a model call
GenRefusedRequestAnswered429 ==
    [][/\ Refusal =>
            /\ gPc' = "done"
            /\ gResponse'.status = 429
            /\ GetProp(gResponse'.body, "resetTime") = JsNumber(Decimal(rlLast'.resetTime))
            /\ rlLast'.resetTime > rlNow
            /\ gCalls' = <<>>
            /\ rlInFlight' = rlInFlight
       /\ (gResponse' # gResponse /\ gResponse'.status = 429) => Refusal
      ]_vars

-----------------------------------------------------------------------------
(* Claims about validateUrl, under SpecValidate *)

\* C19: in production validateUrl rejects every URL whose host is a
\* localhost literal (localhost, 127.0.0.1, 0.0.0.0, ::1), a private or
\* loopback IPv4 address or an internal host name; in every mode it rejects
\* a URL whose scheme is not http or https; and a rejected URL is not the
\* one the route goes on with.
C19_InternalTargetsRejected ==
    vPc \in {"rejected", "used"} =>
        /\ (vProduction /\ vHost.kind # "public") => ~vResult.isValid
        /\ ToLowerCase(vScheme) \notin {"http", "https"} => ~vResult.isValid
        /\ ~vResult.isValid => vPc = "rejected" /\ vUsed = ""

\* the same without the bracketed IPv6 loopback: every other host of the
\* claim is rejected in production
C19_ExceptIpv6Loopback ==
    vPc \in {"rejected", "used"} =>
        /\ (vProduction /\ vHost.kind # "public" /\ vHost.written # "[::1]") =>
                ~vResult.isValid
        /\ ToLowerCase(vScheme) \notin {"http", "https"} => ~vResult.isValid
        /\ ~vResult.isValid => vPc = "rejected" /\ vUsed = ""

\* in production the URL http://[::1]/ is accepted and the route goes on
\* with it
C19_Ipv6LoopbackAccepted ==
    /\ vPc = "used"
    /\ vProduction
    /\ vUrl = "http://[::1]/"
    /\ vUsed = vUrl

-----------------------------------------------------------------------------
(* Claims about the storage of the page, under SpecStorage *)

\* the last call was a loadStoredTests whose database query threw, for a URL
\* whose last saveStoredTests had its database query throw too
LoadedAfterFallbackSave ==
    /\ stResult.op = "load"
    /\ stResult.db = "threw"
    /\ stLastSave[stResult.url].db = "threw"

\* the value loaded has the tests and the summary of the last save
RoundTrip ==
    /\ stResult.value.t = "object"
    /\ GetProp(stResult.value, "tests") = JsArray(stLastSave[stResult.url].tests)
    /\ GetProp(stResult.value, "summary") = stLastSave[stResult.url].summary

C18_SaveDropped ==
    /\ LoadedAfterFallbackSave
    /\ ~stLastSave[stResult.url].written
    /\ stResult.storage
    /\ stResult.value = JsNull

-----------------------------------------------------------------------------
(* Claims about scanPage, under SpecScan *)

\* the scan under way or last run got past the combination and handled
\* its tests
ScanHandled == scPc \in {"saving", "done"} /\ scAiData # JsUndefined

\* the request failed: it rejected, was answered with an error status or a
\* body that is no JSON, or with an error-flagged result
Failed(promise) ==
    \/ promise.status = "rejected"
    \/ /\ promise.status = "fulfilled"
       /\ promise.value # NullValue
       /\ \/ promise.value.status >= 400
          \/ promise.value.body = NotJson
          \/ Flagged(promise.value.body)

\* the tests shown and the tests saved, if any were
Handling(shown, saved) ==
    [shown |-> shown, saves |-> saved.op = "save", saved |-> saved.tests]

\* how scanPage handles the data of the two requests, given previousData
HandlingOf(general, element, previousData) ==
    Handling(ShownTests(AiData(general, element), previousData),
             SavedOf(AiData(general, element), previousData))

\* C13 (as stated): the two generation requests are fault-isolated: if one
\* of them rejects, returns an error status or returns an error-flagged
\* result, the tests of the other are shown, merged with the stored tests
\* and saved exactly as if the failing one had returned nothing; and the
\* combination runs only after both have settled.
C13_FaultIsolated ==
    /\ scPc \in {"loading", "saving"} \/ ScanHandled => AllSettled
    /\ ScanHandled =>
          /\ Failed(scGeneral) =>
                Handling(aiTests, scSaved)
                    = HandlingOf(DefaultData, SettledData(scElement), scPrevious)
          /\ Failed(scElement) =>
                Handling(aiTests, scSaved)
                    = HandlingOf(SettledData(scGeneral), DefaultData, scPrevious)

\* C13 (what holds): the same for a failing request whose result is not
\* error-flagged, and the combination runs only after both have settled
C13_FaultIsolatedUnlessFlagged ==
    /\ scPc \in {"loading", "saving"} \/ ScanHandled => AllSettled
    /\ ScanHandled =>
          /\ Failed(scGeneral) /\ ~Flagged(SettledData(scGeneral)) =>
                Handling(aiTests, scSaved)
                    = HandlingOf(DefaultData, SettledData(scElement), scPrevious)
          /\ Failed(scElement) /\ ~Flagged(SettledData(scElement)) =>
                Handling(aiTests, scSaved)
                    = HandlingOf(SettledData(scGeneral), DefaultData, scPrevious)

\* the page-level request was rejected, the tests of the element-level one
\* were merged with the stored tests and saved
C13_Witness ==
    /\ ScanHandled
    /\ scGeneral = PromiseRejected
    /\ TestsOrNone(SettledData(scElement)) = <<SearchTest>>
    /\ Merges(scAiData, scPrevious)
    /\ scSaved.op = "save"
    /\ Len(aiTests) = Len(GetProp(scPrevious, "tests").items) + 1
    /\ aiTests[Len(aiTests)] = SearchTest

\* the page-level result is error-flagged: the tests of the element-level
\* request are shown without the stored ones, and nothing is saved
C13_FlaggedFailureDropsOther ==
    /\ ScanHandled
    /\ Flagged(SettledData(scGeneral))
    /\ TestsOrNone(SettledData(scElement)) = <<SearchTest>>
    /\ ~IsFalsy(scPrevious)
    /\ Len(GetProp(scPrevious, "tests").items) > 0
    /\ scSaved = NoArgs
    /\ aiTests = TestsOrNone(scAiData)

\* the tests stored before the scan, as loadStoredTests returned them
PreviousTests == GetProp(scPrevious, "tests").items

\* the titles of the tests
TitlesOf(tests) == {GetProp(tests[i], "title") : i \in 1..Len(tests)}

\* C23: when scanPage finds stored tests for the URL and the new result is
\* not error-flagged, the list it shows and saves is the previous tests in
\* their order followed by exactly the new tests whose title equals the
\* title of no previous test, in their order; titles that differ in case or
\* white space only are distinct.
C23_MergeAppendsNewTitles ==
    ScanHandled /\ ~IsFalsy(scPrevious) /\ ~Flagged(scAiData) =>
        (Len(PreviousTests) > 0 =>
            /\ Len(aiTests) >= Len(PreviousTests)
            /\ SubSeq(aiTests, 1, Len(PreviousTests)) = PreviousTests
            /\ SubSeq(aiTests, Len(PreviousTests) + 1, Len(aiTests))
                  = SelectSeq(TestsOrNone(scAiData),
                              LAMBDA t : GetProp(t, "title") \notin TitlesOf(PreviousTests))
            /\ scSaved.op = "save"
            /\ scSaved.tests = aiTests)

\* a test titled Login is stored; of the new tests the one titled Login is
\* dropped and the one titled "login " is appended
C23_Witness ==
    /\ ScanHandled
    /\ ~IsFalsy(scPrevious)
    /\ JsString("Login") \in TitlesOf(PreviousTests)
    /\ JsString("login ") \notin TitlesOf(PreviousTests)
    /\ \E i \in 1..Len(TestsOrNone(scAiData)) : TestsOrNone(scAiData)[i] = ElementLoginTest
    /\ aiTests = PreviousTests \o <<LoginVariantTest>>
    /\ scSaved.tests = aiTests

\* no two of the titles, given by their place, are the same
DistinctTitles(titles) ==
    \A i, j \in 1..Len(titles) : i < j => titles[i] # titles[j]

\* C24: after any sequence of scans of one URL, the tests stored for the URL
\* never hold two tests with the same title: neither the rows of a session
\* of the database nor the tests saveStoredTests was called with, which are
\* the tests of the item of localStorage.
C24_StoredTitlesDistinct ==
    /\ \A k \in SessionsOf(ScanUrl) :
            DistinctTitles([r \in 1..Len(dbSessions[k].rows) |-> dbSessions[k].rows[r].title])
    /\ scSaved.op = "save" =>
            DistinctTitles([t \in 1..Len(scSaved.tests) |-> GetProp(scSaved.tests[t], "title")])

\* both routes returned a test titled Login in one scan, and the session
\* saved for the URL holds the two
C24_DuplicateStored ==
    /\ scPc = "done"
    /\ SessionsOf(ScanUrl) # {}
    /\ \E i, j \in 1..Len(dbSessions[Max(SessionsOf(ScanUrl))].rows) :
            /\ i < j
            /\ dbSessions[Max(SessionsOf(ScanUrl))].rows[i].title = JsString("Login")
            /\ dbSessions[Max(SessionsOf(ScanUrl))].rows[j].title = JsString("Login")

\* the result carries _error: true
ErrorFlag(data) == GetProp(data, "_error") = JsBool("true")

\* the page-level or the element-level result of the scan is flagged
EitherFlagged ==
    ErrorFlag(SettledData(scGeneral)) \/ ErrorFlag(SettledData(scElement))

\* C25: when the page-level or the element-level result of a scan is
\* flagged, the combined result is flagged, scanPage ends without calling
\* saveStoredTests, and no step of that scan changes what the database and
\* localStorage hold.
C25_FlaggedScanSavesNothing ==
    /\ [](ScanHandled /\ EitherFlagged =>
            /\ Flagged(scAiData)
            /\ hasError
            /\ scSaved = NoArgs
            /\ scPc = "done")
    /\ [][EitherFlagged => UNCHANGED <<dbSessions, lsItems>>]_vars

\* the second scan of the URL ended with a flagged result of the
\* element-level route alone and without a save; the session the first scan
\* saved is the one stored
C25_Witness ==
    /\ scPc = "done"
    /\ scScans = 2
    /\ ScanHandled
    /\ ErrorFlag(SettledData(scElement))
    /\ ~ErrorFlag(SettledData(scGeneral))
    /\ TestsOrNone(scAiData) # <<>>
    /\ scSaved = NoArgs
    /\ Len(dbSessions) = 1

-----------------------------------------------------------------------------
(* Claims about the page with its input field, under SpecPage *)

\* C26: the tests and summary shown belong to the URL in the input field:
\* once no load and no scan is under way, what is shown was written with
\* the data of the URL the field holds, so that no scan or load started for
\* an earlier URL has overwritten it; and a scan is started only when none
\* is under way.
C26_DisplayBelongsToUrl ==
    /\ ldPending = {} /\ ~loading => shownFor = pageUrl
    /\ scPc \in {"snapshot", "generating", "loading", "saving"} => loading

\* the field holds the other URL, no load and no scan is under way, and
\* the tests shown are those a scan of the first URL produced
C26_ScanOverwroteOtherUrl ==
    /\ pageUrl = OtherUrl
    /\ ldPending = {}
    /\ ~loading
    /\ scPc = "done"
    /\ shownFor = ScanUrl
    /\ aiTests # <<>>

-----------------------------------------------------------------------------
(* Further claims about the rate limiter, under SpecRateLimiter *)

\* isAllowed(identifier) would return false at time now, the map being as
\* it is
RefusedAt(identifier, now) == ~isAllowed(rlRequests, identifier, now).allowed

\* C27: whenever isAllowed(id) returns false, getResetTime(id) at the same
\* instant is strictly later than now, isAllowed(id) returns true at that
\* time if no call for id is made before it, and returns false at every
\* time from now up to it; and the resetTime of a 429 response is that
\* value.
C27_ResetTimeIsEarliestAdmission ==
    /\ \A id \in Identifiers :
          RefusedAt(id, rlNow) =>
              /\ getResetTime(rlRequests, id) > rlNow
              /\ ~RefusedAt(id, getResetTime(rlRequests, id))
              /\ \A t \in rlNow..(getResetTime(rlRequests, id) - 1) : RefusedAt(id, t)
    /\ ~rlLast.allowed /\ rlLast.status = 429 /\ rlLast.time = rlNow =>
          /\ RefusedAt(rlLast.id, rlNow)
          /\ rlLast.resetTime = getResetTime(rlRequests, rlLast.id)

\* a request was refused at this instant, the stored requests of its
\* identifier having been made at different times
C27_Witness ==
    /\ ~rlLast.allowed
    /\ rlLast.status = 429
    /\ rlLast.time = rlNow
    /\ rlLast.resetTime = rlNow + 1
    /\ Len(rlRequests[rlLast.id]) = MaxRequests
    /\ rlRequests[rlLast.id][1] < rlRequests[rlLast.id][MaxRequests]

\* the step is a rate limit check that returned allowed
Admission == rlCalls' = rlCalls + 1 /\ rlLast'.allowed

\* the number of requests admitted so far
AdmittedSoFar ==
    SumOver([id \in Identifiers |-> Len(rlAdmitted[id])], Identifiers)

\* C28: in every route the rate limit check comes before the reading and
\* validation of the body: a request admitted by the check takes one slot
\* of its identifier and goes on to its body; a request answered 400 was
\* admitted before, and the 400 response leaves the slot taken; a request
\* refused by the check takes no slot and does not reach its body.
C28_CheckBeforeValidation ==
    /\ [](rlInvalid + InFlight <= AdmittedSoFar)
    /\ [][/\ Admission =>
               /\ rlRequests'[rlLast'.id]
                     = Append(Filter(rlRequests[rlLast'.id], rlNow), rlNow)
               /\ getRemainingRequests(rlRequests', rlLast'.id, rlNow)
                     = getRemainingRequests(rlRequests, rlLast'.id, rlNow) - 1
               /\ \E route \in LimitedRoutes :
                     rlInFlight' = [rlInFlight EXCEPT ![<<route, "body">>] = @ + 1]
          /\ Refusal =>
               /\ rlRequests' = rlRequests
               /\ rlInFlight' = rlInFlight
               /\ rlInvalid' = rlInvalid
          /\ rlInvalid' # rlInvalid =>
               /\ rlInvalid' = rlInvalid + 1
               /\ rlRequests' = rlRequests
               /\ \E route \in LimitedRoutes :
                     rlInFlight' = [rlInFlight EXCEPT ![<<route, "body">>] = @ - 1]
      ]_vars

\* the requests admitted were all answered 400, they were all of one
\* identifier, and the next request of that identifier has just been
\* refused
C28_Witness ==
    /\ rlInvalid = MaxRequests
    /\ AdmittedSoFar = MaxRequests
    /\ Len(rlAdmitted[rlLast.id]) = MaxRequests
    /\ InFlight = 0
    /\ ~rlLast.allowed
    /\ rlLast.status = 429
    /\ rlLast.time = rlNow

\* C30: no identifier has more than maxRequests stored timestamps; a call
\* of isAllowed that returns false, with the call of getResetTime for its
\* response, leaves every stored history as it was; a call of isAllowed
\* for one identifier leaves the histories of the others as they were; and
\* no other step changes a history.
C30_HistoriesBoundedAndIsolated ==
    /\ [](\A id \in Identifiers : Len(rlRequests[id]) <= MaxRequests)
    /\ [][/\ Refusal => rlRequests' = rlRequests
          /\ rlCalls' = rlCalls + 1 =>
               \A id \in Identifiers \ {rlLast'.id} : rlRequests'[id] = rlRequests[id]
          /\ rlCalls' = rlCalls => rlRequests' = rlRequests
      ]_vars

\* both identifiers have a stored history, that of one is full, and a
\* request of that one has just been refused
C30_Witness ==
    /\ \A id \in Identifiers : rlRequests[id] # <<>>
    /\ Len(rlRequests[rlLast.id]) = MaxRequests
    /\ ~rlLast.allowed
    /\ rlLast.status = 429
    /\ rlLast.time = rlNow

-----------------------------------------------------------------------------
(* A further claim about the database, under SpecStorage *)

\* C29: saveTestSession is all-or-nothing: a call that raises adds no
\* session, so that, no save being at its createMany, every session of the
\* database is that of a save that completed and has its tests, and
\* getLatestTestsForUrl answers as it did before the failed save.
C29_SaveAllOrNothing ==
    stPc # "create tests" =>
        \A i \in 1..Len(dbSessions) : dbSessions[i].rows # <<>>

\* the first call, a save whose createMany failed, wrote the tests to
\* localStorage; the second, a load of the same URL, is answered by the
\* database with the session the failed save left, which has no tests
C29_FailedSaveAnswersLoad ==
    /\ stPc = "idle"
    /\ stCalls = 2
    /\ stResult.op = "load"
    /\ stResult.outcome = "returned"
    /\ stResult.db = "answered"
    /\ stLastSave[stResult.url].db = "threw"
    /\ stLastSave[stResult.url].written
    /\ SessionsOf(stResult.url) # {}
    /\ stResult.value = SessionData(dbSessions[Max(SessionsOf(stResult.url))])
    /\ GetProp(stResult.value, "tests").items = <<>>

====
